---- MODULE Spec2Model ----
(***************************************************************************)
(* TravelCompanion server: the trip store (server/storage.ts, bundled at   *)
(* the end of src/server/routes.ts), the route handlers of                 *)
(* src/server/routes.ts and the tables of src/shared/schema.ts.            *)
(*                                                                         *)
(* A request handler is an async function: it runs without interruption    *)
(* from one await to the next, and other requests' handlers may run at     *)
(* each await.  Every action below is the piece of one handler between two *)
(* awaits on the store; pieces that only read data no request can change   *)
(* (the users table, a trip's userId) are merged into the piece before.    *)
(* The store's statements are those of DatabaseStorage (SQLite dialect,    *)
(* last_insert_rowid()); the driver is taken to be asynchronous, as the    *)
(* bundled db.ts is (a connection pool), so that awaits do yield.          *)
(*                                                                         *)
(* Spec is the trip, sharing and item routes together.  SpecShare,         *)
(* SpecSeq, SpecAccess and SpecOwner are parts of it small enough to       *)
(* explore in full: fewer routes, fewer requests at a time, or a database  *)
(* that earlier requests have filled.  SpecLists has the list routes and   *)
(* the requests without a session, SpecDates the trip bodies with dates,   *)
(* SpecWeather and SpecNextTrip the handlers of src/server/weather.ts      *)
(* with a clock, a store that may be down and the weather provider.        *)
(* SpecScoped has every route whose path names a trip, a schedule or a     *)
(* packing item, SpecAtomic the share workflow on a store that may be      *)
(* down, SpecCache the weather requests for one city in three spellings,   *)
(* and SpecForecast the calls of getForecast.                              *)
(***************************************************************************)
EXTENDS Integers, Sequences, FiniteSets, Bags, TLC

(* ---------------------------- bounds ----------------------------------- *)
\* rows the trips table may ever hold (ids are never reused)
MaxTrips == 2
\* rows the trip_members table may ever hold
MaxMembers == 2
\* rows the schedules table may ever hold
MaxSchedules == 1
\* rows the packing_items table may ever hold
MaxPackingItems == 1
\* requests being handled at the same time
MaxInFlight == 2
\* quarters of an hour the clock advances in a run
MaxTicks == 3
\* rows the weather_cache table may ever hold
MaxCacheRows == 2
\* items in the forecast the provider sends
MaxItems == 3

(* ---------------------------- values ----------------------------------- *)
\* JavaScript's undefined, for an id
Undefined == 0

\* the users table: id = position, value = username (unique)
users == <<"alice", "bob", "carol">>
UserIds == DOMAIN users

\* usernames a share request's body may carry ("" stands for a missing or empty one)
BodyUsernames == {"alice", "bob", "carol", "nobody", ""}

\* roles a share request's body may carry ("undefined": the body has no role)
BodyRoles == {"undefined", "editor", "owner"}

\* isShared in the body of PATCH /api/trips/:id and POST /api/trips
BodyIsShared == {"undefined", "true", "false"}

\* userId in the body of PATCH /api/trips/:id and POST /api/trips
BodyUserIds == {Undefined} \cup UserIds

TripIds == 1..MaxTrips
ScheduleIds == 1..MaxSchedules
PackingItemIds == 1..MaxPackingItems

\* tripId in the body of a schedule or packing item request
BodyTripIds == {Undefined} \cup TripIds

\* title in the body of POST /api/trips/:id/schedules
BodyTitles == {"undefined", "Louvre"}

\* title in the body of PATCH /api/schedules/:id
BodyNewTitles == {"undefined", "Orsay"}

\* isPacked in the body of a packing item request
BodyIsPacked == {"undefined", "true"}

\* a day, in quarters of an hour: setHours(0, 0, 0, 0) cuts a time down to its day
TicksPerDay == 96

\* const cacheTime = 30 * 60 * 1000, in quarters of an hour
cacheTime == 2

\* the midnight that begins the day in which the run starts
Today == TicksPerDay

\* the time at which the run starts: half an hour before the next midnight
Evening == Today + TicksPerDay - cacheTime

\* ten in the morning of the day d days after Today (before it, when d is negative)
Morning(d) == Today + d * TicksPerDay + 40

\* no row: what a select that finds nothing yields, and what DELETE leaves of a row
\* of trips (its id stays used: AUTOINCREMENT)
NoRow == [live |-> FALSE]

NoResp == [op |-> "none"]

\* getForecast has not been called
NoForecast == [called |-> FALSE]

\* a partial trip that carries no column
NoTripData ==
  [isShared |-> "undefined", userId |-> Undefined, destination |-> "undefined",
   startDate |-> Undefined, endDate |-> Undefined]

VARIABLES
  trips,        \* the trips table: a sequence, id = position
  tripMembers,  \* the trip_members table: a sequence, id = position
  schedules,    \* the schedules table: a sequence, id = position
  packingItems, \* the packing_items table: a sequence, id = position
  lastRowid,    \* the connection's last_insert_rowid()
  creator,      \* history: the user whose POST /api/trips made each row of trips
  fkEnforced,   \* whether the database enforces REFERENCES (a build/pragma choice)
  load,         \* the run's size: the trips created in it, the requests at a time
  inflight,     \* the requests being handled: a bag of handlers, each at an await
  resp,         \* the response the last step sent, if it sent one
  weatherCache, \* the weather_cache table: a sequence, id = position
  now,          \* the server's clock, new Date(), in quarters of an hour
  dbUp,         \* whether the database answers: when not, a store call rejects
  upstream,     \* how the weather provider answers a fetch
  forecast      \* the last call of getForecast: what the provider sent, what it returned

vars == <<trips, tripMembers, schedules, packingItems, lastRowid, creator, fkEnforced,
          load, inflight, resp, weatherCache, now, dbUp, upstream, forecast>>

\* the weather cache and the surroundings the weather functions depend on
weatherState == <<weatherCache, now, dbUp, upstream, forecast>>

\* the tables of a trip's children
children == <<schedules, packingItems>>

(* ---------------------------- the store -------------------------------- *)
getUserByUsername(username) ==
  IF \E i \in UserIds : users[i] = username
  THEN CHOOSE i \in UserIds : users[i] = username
  ELSE Undefined

getTrip(id) ==
  IF id \in DOMAIN trips /\ trips[id].live THEN trips[id] ELSE NoRow

\* the rows of trip_members of one trip, as the set of their ids
getTripMembers(tripId) ==
  {m \in DOMAIN tripMembers : tripMembers[m].tripId = tripId}

getSchedule(id) ==
  IF id \in DOMAIN schedules /\ schedules[id].live THEN schedules[id] ELSE NoRow

getPackingItem(id) ==
  IF id \in DOMAIN packingItems /\ packingItems[id].live THEN packingItems[id]
  ELSE NoRow

\* the rows of schedules of one trip, as the set of their ids
getSchedulesByTrip(tripId) ==
  {i \in DOMAIN schedules : schedules[i].live /\ schedules[i].tripId = tripId}

\* the rows of packing_items of one trip, as the set of their ids
getPackingItemsByTrip(tripId) ==
  {i \in DOMAIN packingItems :
     packingItems[i].live /\ packingItems[i].tripId = tripId}

\* select * from trips where user_id = ?: the ids of the rows
getTripsByUser(userId) ==
  {t \in DOMAIN trips : trips[t].live /\ trips[t].userId = userId}

\* the rows of trip_tags of one trip: no route inserts into trip_tags
getTripTags(tripId) == {}

\* a member check that looks at the user only, not at which trip's rows it is given
isMemberOfAnyTrip(members, userId) ==
  \E m \in DOMAIN tripMembers : tripMembers[m].userId = userId

\* a member check that compares the row's id, not its userId
isMemberById(members, userId) ==
  \E m \in members : m = userId

\* members.some(member => member.userId === userId)
isMember(members, userId) ==
  \E m \in members : tripMembers[m].userId = userId

\* an editor check that forgets the role
isEditorAnyRole(members, userId) ==
  \E m \in members : tripMembers[m].userId = userId

\* members.some(member => member.userId === userId &&
\*   (member.role === "editor" || member.role === "owner"))
isEditor(members, userId) ==
  \E m \in members : /\ tripMembers[m].userId = userId
                     /\ tripMembers[m].role \in {"editor", "owner"}

\* a default role of "editor"
roleOfBodyEditor(role) == IF role = "undefined" THEN "editor" ELSE role

\* const { username, role = "viewer" } = req.body
roleOfBody(role) == IF role = "undefined" THEN "viewer" ELSE role

\* an owner check that also passes whoever holds a membership row of role "owner"
isOwnerOrOwnerRole(trip, userId) ==
  \/ trip.userId = userId
  \/ \E m \in DOMAIN tripMembers : /\ tripMembers[m].userId = userId
                                    /\ tripMembers[m].role = "owner"

\* trip.userId !== req.user!.id, negated
isOwner(trip, userId) == trip.userId = userId

\* a schema that omits id only
parseTripBodyKeepsUserId(body) == body

\* insertTripSchema omits id and userId: parse drops a userId the body carries;
\* startDate and endDate are coerced to dates, each on its own
parseTripBody(body) == [body EXCEPT !.userId = Undefined]

\* insertTripSchema accepts the body: destination, startDate and endDate are
\* required, and optional under partial(); no rule relates the two dates
validTripBody(body, partial) ==
  partial \/ /\ body.destination # "undefined"
             /\ body.startDate # Undefined
             /\ body.endDate # Undefined

\* the columns tripData carries written over those of the row
setTrip(row, tripData) ==
  [live |-> TRUE,
   userId |-> IF tripData.userId = Undefined THEN row.userId ELSE tripData.userId,
   isShared |-> IF tripData.isShared = "undefined" THEN row.isShared
                ELSE tripData.isShared = "true",
   destination |-> IF tripData.destination = "undefined" THEN row.destination
                   ELSE tripData.destination,
   startDate |-> IF tripData.startDate = Undefined THEN row.startDate
                 ELSE tripData.startDate,
   endDate |-> IF tripData.endDate = Undefined THEN row.endDate
               ELSE tripData.endDate]

\* an update that leaves the is_shared column alone
updateTripKeepsIsShared(id, tripData) ==
  IF id \in DOMAIN trips /\ trips[id].live
  THEN [trips EXCEPT ![id] = [setTrip(@, tripData) EXCEPT !.isShared = trips[id].isShared]]
  ELSE trips

\* db.update(trips).set(tripData).where(eq(trips.id, id)): the table afterwards;
\* set() writes every column tripData carries
updateTrip(id, tripData) ==
  IF id \in DOMAIN trips /\ trips[id].live
  THEN [trips EXCEPT ![id] = setTrip(@, tripData)]
  ELSE trips

\* a row of trip_members may be inserted: REFERENCES trips(id), when enforced
memberInsertAllowed(tripId) ==
  fkEnforced => getTrip(tripId).live

\* a row of schedules or packing_items may be inserted or moved to tripId:
\* REFERENCES trips(id), when enforced
childWriteAllowed(tripId) ==
  fkEnforced => getTrip(tripId).live

\* a row of trips may be deleted: no row references it, when REFERENCES is enforced
tripDeleteAllowed(tripId) ==
  fkEnforced => /\ getTripMembers(tripId) = {}
                /\ getSchedulesByTrip(tripId) = {}
                /\ getPackingItemsByTrip(tripId) = {}

(* ---------------------------- requests --------------------------------- *)
\* the server takes a new request
Accept ==
  /\ resp = NoResp
  /\ BagCardinality(inflight) < load.inflight

\* the handler req stands at the await named pc
At(req, kind, pc) ==
  /\ resp = NoResp
  /\ req.kind = kind
  /\ req.pc = pc

\* what a response tells of the request it answers: not the handler's position,
\* nor what the handler has read or parsed on its way
ReqOf(req) ==
  IF "isShared" \in DOMAIN req
  THEN [req EXCEPT !.pc = "sent", !.isShared = FALSE]
  ELSE IF "data" \in DOMAIN req
  THEN [kind |-> req.kind, user |-> req.user, id |-> req.id, tripId |-> req.tripId]
  ELSE [req EXCEPT !.pc = "sent"]

Response(req, status, msg, body) ==
  [op |-> req.kind, req |-> ReqOf(req), status |-> status, msg |-> msg,
   body |-> body]

\* a new request is answered before its handler awaits anything changeable
Answer(req, status, msg, body) ==
  /\ inflight' = inflight
  /\ resp' = Response(req, status, msg, body)

Reject(req, status, msg) == Answer(req, status, msg, NoRow)

\* a new request's handler reaches its first await
Enter(req) ==
  /\ inflight' = inflight (+) SetToBag({req})
  /\ resp' = NoResp

\* the handler moves from one await to the next
Continue(req, next) ==
  /\ inflight' = (inflight (-) SetToBag({req})) (+) SetToBag({next})
  /\ resp' = NoResp

\* the handler sends its response and ends
Respond(req, status, msg, body) ==
  /\ inflight' = inflight (-) SetToBag({req})
  /\ resp' = Response(req, status, msg, body)

(* ------------------------ POST /api/trips ------------------------------ *)
\* an insert that takes the owner from the body when the body names one
CreateTripInsertBodyOwner(u, body) ==
  /\ Accept
  /\ Len(trips) < load.trips
  /\ IF ~validTripBody(body, FALSE)
     THEN /\ Reject([kind |-> "createTrip", user |-> u, pc |-> "parse"],
                    400, "ZodError")
          /\ UNCHANGED <<trips, lastRowid, creator>>
     ELSE /\ trips' = Append(trips, [live |-> TRUE,
                                     userId |-> IF body.userId = Undefined THEN u
                                                ELSE body.userId,
                                     isShared |-> (body.isShared = "true"),
                                     destination |-> body.destination,
                                     startDate |-> body.startDate,
                                     endDate |-> body.endDate])
          /\ lastRowid' = Len(trips) + 1
          /\ creator' = Append(creator, u)
          /\ Enter([kind |-> "createTrip", user |-> u, pc |-> "readback"])
  /\ UNCHANGED <<tripMembers, children, fkEnforced, load, weatherState>>

\* the handler up to and including createTrip's insert
CreateTripInsert(u, body) ==
  /\ Accept
  /\ Len(trips) < load.trips
  /\ LET tripData == parseTripBody(body) IN
       IF ~validTripBody(body, FALSE)
       THEN /\ Reject([kind |-> "createTrip", user |-> u, pc |-> "parse"],
                      400, "ZodError")
            /\ UNCHANGED <<trips, lastRowid, creator>>
       ELSE /\ trips' = Append(trips, [live |-> TRUE, userId |-> u,
                                       isShared |-> (tripData.isShared = "true"),
                                       destination |-> tripData.destination,
                                       startDate |-> tripData.startDate,
                                       endDate |-> tripData.endDate])
            /\ lastRowid' = Len(trips) + 1
            /\ creator' = Append(creator, u)
            /\ Enter([kind |-> "createTrip", user |-> u, pc |-> "readback"])
  /\ UNCHANGED <<tripMembers, children, fkEnforced, load, weatherState>>

\* createTrip's read-back of last_insert_rowid() and the 201 answer
CreateTripReadback(req) ==
  /\ At(req, "createTrip", "readback")
  /\ Respond(req, 201, "", getTrip(lastRowid))
  /\ UNCHANGED <<trips, tripMembers, children, lastRowid, creator, fkEnforced, load, weatherState>>

(* ------------------------ PATCH /api/trips/:id ------------------------- *)
\* getTrip, the owner check and the parse of the body
PatchTripStart(u, t, body) ==
  /\ Accept
  /\ LET req == [kind |-> "patchTrip", user |-> u, tripId |-> t,
                 tripData |-> parseTripBody(body), pc |-> "updateTrip"]
         early == [kind |-> "patchTrip", user |-> u, tripId |-> t, pc |-> "getTrip"]
         trip == getTrip(t) IN
       IF ~trip.live
       THEN Reject(early, 404, "Trip not found")
       ELSE IF ~isOwner(trip, u)
       THEN Reject(early, 403, "Not authorized to update this trip")
       ELSE Enter(req)
  /\ UNCHANGED <<trips, tripMembers, children, lastRowid, creator, fkEnforced, load, weatherState>>

\* an update that removes the trip's membership rows when it sets isShared to false
PatchTripUpdateUnshare(req) ==
  /\ At(req, "patchTrip", "updateTrip")
  /\ trips' = updateTrip(req.tripId, req.tripData)
  /\ tripMembers' = IF req.tripData.isShared = "false"
                    THEN SelectSeq(tripMembers, LAMBDA row : row.tripId # req.tripId)
                    ELSE tripMembers
  /\ Respond(req, 200, "", trips'[req.tripId])
  /\ UNCHANGED <<children, lastRowid, creator, fkEnforced, load, weatherState>>

\* storage.updateTrip and the 200 answer
PatchTripUpdate(req) ==
  /\ At(req, "patchTrip", "updateTrip")
  /\ trips' = updateTrip(req.tripId, req.tripData)
  /\ Respond(req, 200, "", trips'[req.tripId])
  /\ UNCHANGED <<tripMembers, children, lastRowid, creator, fkEnforced, load, weatherState>>

(* ------------------------ DELETE /api/trips/:id ------------------------ *)
DeleteTripStart(u, t) ==
  /\ Accept
  /\ LET req == [kind |-> "deleteTrip", user |-> u, tripId |-> t, pc |-> "deleteTrip"]
         trip == getTrip(t) IN
       IF ~trip.live
       THEN Reject(req, 404, "Trip not found")
       ELSE IF ~isOwner(trip, u)
       THEN Reject(req, 403, "Not authorized to delete this trip")
       ELSE Enter(req)
  /\ UNCHANGED <<trips, tripMembers, children, lastRowid, creator, fkEnforced, load, weatherState>>

DeleteTripDelete(req) ==
  /\ At(req, "deleteTrip", "deleteTrip")
  /\ IF tripDeleteAllowed(req.tripId)
     THEN /\ trips' = [i \in DOMAIN trips |->
                         IF i = req.tripId THEN NoRow ELSE trips[i]]
          /\ Respond(req, 204, "", NoRow)
     ELSE /\ trips' = trips
          /\ Respond(req, 500, "FOREIGN KEY constraint failed", NoRow)
  /\ UNCHANGED <<tripMembers, children, lastRowid, creator, fkEnforced, load, weatherState>>

(* ------------------------ POST /api/trips/:id/share -------------------- *)
\* getTrip, the owner check, the username check, getUserByUsername, the self check
ShareStart(u, t, username, role) ==
  /\ Accept
  /\ LET shareWithUser == getUserByUsername(username)
         req == [kind |-> "share", user |-> u, tripId |-> t,
                 shareWith |-> shareWithUser, role |-> role,
                 isShared |-> FALSE, pc |-> "getTripMembers"]
         early == [kind |-> "share", user |-> u, tripId |-> t, pc |-> "getTrip"]
         named == [kind |-> "share", user |-> u, tripId |-> t,
                   username |-> username, pc |-> "getUserByUsername"]
         trip == getTrip(t) IN
       IF ~dbUp
       THEN Reject(early, 500, "store error")
       ELSE IF ~trip.live
       THEN Reject(early, 404, "Trip not found")
       ELSE IF ~isOwner(trip, u)
       THEN Reject(early, 403, "Not authorized to share this trip")
       ELSE IF username = ""
       THEN Reject(named, 400, "Username is required")
       ELSE IF shareWithUser = Undefined
       THEN Reject(named, 404, "User not found")
       ELSE IF shareWithUser = u
       THEN Reject(named, 400, "Cannot share trip with yourself")
       ELSE Enter([req EXCEPT !.isShared = trip.isShared])
  /\ UNCHANGED <<trips, tripMembers, children, lastRowid, creator, fkEnforced, load, weatherState>>

\* getTripMembers and the already-shared check
ShareCheck(req) ==
  /\ At(req, "share", "getTripMembers")
  /\ LET alreadyShared == isMember(getTripMembers(req.tripId), req.shareWith) IN
       IF ~dbUp
       THEN Respond(req, 500, "store error", NoRow)
       ELSE IF alreadyShared
       THEN Respond(req, 400, "Trip already shared with this user", NoRow)
       ELSE Continue(req, [req EXCEPT !.pc = IF req.isShared THEN "addTripMember"
                                             ELSE "updateTrip"])
  /\ UNCHANGED <<trips, tripMembers, children, lastRowid, creator, fkEnforced, load, weatherState>>

\* if (!trip.isShared) await storage.updateTrip(tripId, { isShared: true })
ShareMark(req) ==
  /\ At(req, "share", "updateTrip")
  /\ IF ~dbUp
     THEN /\ trips' = trips
          /\ Respond(req, 500, "store error", NoRow)
     ELSE /\ trips' = updateTrip(req.tripId, [NoTripData EXCEPT !.isShared = "true"])
          /\ Continue(req, [req EXCEPT !.pc = "addTripMember"])
  /\ UNCHANGED <<tripMembers, children, lastRowid, creator, fkEnforced, load, weatherState>>

\* an insert whose failure sets the trip's is_shared back when the trip has no member
ShareInsertRollback(req) ==
  /\ At(req, "share", "addTripMember")
  /\ dbUp => Len(tripMembers) < MaxMembers
  /\ IF ~dbUp
     THEN /\ UNCHANGED <<tripMembers, lastRowid>>
          /\ trips' = IF getTripMembers(req.tripId) = {}
                      THEN updateTrip(req.tripId, [NoTripData EXCEPT !.isShared = "false"])
                      ELSE trips
          /\ Respond(req, 500, "store error", NoRow)
     ELSE /\ tripMembers' = Append(tripMembers,
               [tripId |-> req.tripId, userId |-> req.shareWith,
                role |-> roleOfBody(req.role)])
          /\ lastRowid' = Len(tripMembers) + 1
          /\ trips' = trips
          /\ Continue(req, [req EXCEPT !.pc = "readback"])
  /\ UNCHANGED <<children, creator, fkEnforced, load, weatherState>>

\* addTripMember's insert
ShareInsert(req) ==
  /\ At(req, "share", "addTripMember")
  /\ dbUp => Len(tripMembers) < MaxMembers
  /\ IF ~dbUp
     THEN /\ UNCHANGED <<tripMembers, lastRowid>>
          /\ Respond(req, 500, "store error", NoRow)
     ELSE IF memberInsertAllowed(req.tripId)
     THEN /\ tripMembers' = Append(tripMembers,
               [tripId |-> req.tripId, userId |-> req.shareWith,
                role |-> roleOfBody(req.role)])
          /\ lastRowid' = Len(tripMembers) + 1
          /\ Continue(req, [req EXCEPT !.pc = "readback"])
     ELSE /\ UNCHANGED <<tripMembers, lastRowid>>
          /\ Respond(req, 500, "FOREIGN KEY constraint failed", NoRow)
  /\ UNCHANGED <<trips, children, creator, fkEnforced, load, weatherState>>

\* select * from trip_members where id = memberId
selectTripMember(memberId) ==
  IF memberId \in DOMAIN tripMembers
  THEN [live |-> TRUE, id |-> memberId,
        tripId |-> tripMembers[memberId].tripId,
        userId |-> tripMembers[memberId].userId,
        role |-> tripMembers[memberId].role]
  ELSE NoRow

\* addTripMember's read-back of last_insert_rowid() and the 201 answer
ShareReadback(req) ==
  /\ At(req, "share", "readback")
  /\ IF ~dbUp
     THEN Respond(req, 500, "store error", NoRow)
     ELSE Respond(req, 201, "", selectTripMember(lastRowid))
  /\ UNCHANGED <<trips, tripMembers, children, lastRowid, creator, fkEnforced, load, weatherState>>

(* ------------------------ GET /api/trips/:id and its lists ------------- *)
\* GET /api/trips/:id, /api/trips/:id/schedules, /api/trips/:id/packing-items and
\* /api/trips/:id/tags: the same handler but for the message and the list
ReadKinds == {"getTrip", "getSchedules", "getPackingItems", "getTags"}

readDenied(kind) ==
  CASE kind = "getTrip" -> "Not authorized to view this trip"
    [] kind = "getSchedules" -> "Not authorized to view this trip's schedules"
    [] kind = "getPackingItems" -> "Not authorized to view this trip's packing items"
    [] kind = "getTags" -> "Not authorized to view this trip's tags"

\* what the handler sends on success: the trip, or the list of its rows (their ids)
readResult(kind, tripId) ==
  CASE kind = "getTrip" -> [live |-> TRUE, rows |-> {tripId}]
    [] kind = "getSchedules" -> [live |-> TRUE, rows |-> getSchedulesByTrip(tripId)]
    [] kind = "getPackingItems" ->
         [live |-> TRUE, rows |-> getPackingItemsByTrip(tripId)]
    [] kind = "getTags" -> [live |-> TRUE, rows |-> getTripTags(tripId)]

\* getTrip and the owner check
ReadStart(kind, u, t) ==
  /\ Accept
  /\ LET req == [kind |-> kind, user |-> u, tripId |-> t, pc |-> "getTripMembers"]
         trip == getTrip(t) IN
       IF ~trip.live
       THEN Reject(req, 404, "Trip not found")
       ELSE IF ~isOwner(trip, u)
       THEN Enter(req)
       ELSE IF kind = "getTrip"
       THEN Answer(req, 200, "", readResult(kind, t))
       ELSE Enter([req EXCEPT !.pc = "list"])
  /\ UNCHANGED <<trips, tripMembers, children, lastRowid, creator, fkEnforced, load, weatherState>>

\* getTripMembers and the member check
ReadMembers(req) ==
  /\ resp = NoResp
  /\ req.kind \in ReadKinds
  /\ req.pc = "getTripMembers"
  /\ IF ~isMember(getTripMembers(req.tripId), req.user)
     THEN Respond(req, 403, readDenied(req.kind), NoRow)
     ELSE IF req.kind = "getTrip"
     THEN Respond(req, 200, "", readResult(req.kind, req.tripId))
     ELSE Continue(req, [req EXCEPT !.pc = "list"])
  /\ UNCHANGED <<trips, tripMembers, children, lastRowid, creator, fkEnforced, load, weatherState>>

\* getSchedulesByTrip, getPackingItemsByTrip or getTripTags, and the 200 answer
ReadList(req) ==
  /\ resp = NoResp
  /\ req.kind \in ReadKinds
  /\ req.pc = "list"
  /\ Respond(req, 200, "", readResult(req.kind, req.tripId))
  /\ UNCHANGED <<trips, tripMembers, children, lastRowid, creator, fkEnforced, load, weatherState>>

(* ------------------------ schedules and packing items ------------------ *)
PostKinds == {"postSchedule", "postPackingItem"}
PatchKinds == {"patchSchedule", "patchPackingItem"}
DeleteKinds == {"deleteSchedule", "deletePackingItem"}
ScheduleKinds == {"postSchedule", "patchSchedule", "deleteSchedule"}
WriteKinds == PostKinds \cup PatchKinds \cup DeleteKinds

writeDenied(kind) ==
  CASE kind = "postSchedule" -> "Not authorized to add schedules to this trip"
    [] kind = "patchSchedule" -> "Not authorized to update this schedule"
    [] kind = "deleteSchedule" -> "Not authorized to delete this schedule"
    [] kind = "postPackingItem" -> "Not authorized to add packing items to this trip"
    [] kind = "patchPackingItem" -> "Not authorized to update this packing item"
    [] kind = "deletePackingItem" -> "Not authorized to delete this packing item"

childNotFound(kind) ==
  IF kind \in ScheduleKinds THEN "Schedule not found" ELSE "Packing item not found"

\* the store call the handler makes once the requester is authorized
writeCall(kind) ==
  CASE kind \in PostKinds -> "create"
    [] kind \in PatchKinds -> "update"
    [] kind \in DeleteKinds -> "delete"

\* insertScheduleSchema omits id only: tripId and title are required, and
\* optional under partial()
parseScheduleBody(body, partial) ==
  IF partial \/ (body.tripId # Undefined /\ body.val # "undefined")
  THEN [ok |-> TRUE, tripId |-> body.tripId, val |-> body.val]
  ELSE [ok |-> FALSE]

\* insertPackingItemSchema omits id and isPacked: tripId is required, and
\* optional under partial(); PATCH copies req.body.isPacked beside the parse
parsePackingItemBody(body, partial) ==
  IF partial \/ body.tripId # Undefined
  THEN [ok |-> TRUE, tripId |-> body.tripId,
        val |-> IF partial THEN body.val ELSE "undefined"]
  ELSE [ok |-> FALSE]

parseBody(kind, body) ==
  IF kind \in ScheduleKinds THEN parseScheduleBody(body, kind \in PatchKinds)
  ELSE parsePackingItemBody(body, kind \in PatchKinds)

getChild(kind, id) ==
  IF kind \in ScheduleKinds THEN getSchedule(id) ELSE getPackingItem(id)

\* POST /api/trips/:id/schedules, POST /api/trips/:id/packing-items:
\* getTrip, the owner check and, for the owner, the parse of the body
PostStart(kind, u, t, body) ==
  /\ Accept
  /\ LET parsed == parseBody(kind, body)
         \* { ...scheduleData, tripId }: the tripId of the path replaces the body's
         data == IF parsed.ok THEN [parsed EXCEPT !.tripId = t] ELSE parsed
         req == [kind |-> kind, user |-> u, id |-> Undefined, tripId |-> t,
                 data |-> data, pc |-> "getTripMembers"]
         trip == getTrip(t) IN
       IF ~trip.live
       THEN Reject(req, 404, "Trip not found")
       ELSE IF ~isOwner(trip, u)
       THEN Enter(req)
       ELSE IF ~req.data.ok
       THEN Reject(req, 400, "ZodError")
       ELSE Enter([req EXCEPT !.pc = "create"])
  /\ UNCHANGED <<trips, tripMembers, children, lastRowid, creator, fkEnforced, load, weatherState>>

\* PATCH and DELETE /api/schedules/:id, /api/packing-items/:id:
\* getSchedule or getPackingItem
ChildStart(kind, u, id, body) ==
  /\ Accept
  /\ LET child == getChild(kind, id) IN
       IF ~child.live
       THEN Reject([kind |-> kind, user |-> u, id |-> id, tripId |-> Undefined,
                    data |-> parseBody(kind, body), pc |-> "getChild"],
                   404, childNotFound(kind))
       ELSE Enter([kind |-> kind, user |-> u, id |-> id, tripId |-> child.tripId,
                   data |-> parseBody(kind, body), pc |-> "getTrip"])
  /\ UNCHANGED <<trips, tripMembers, children, lastRowid, creator, fkEnforced, load, weatherState>>

\* a handler that goes on to the member check when the trip is not found
ChildTripPolicyFirst(req) ==
  /\ resp = NoResp
  /\ req.kind \in PatchKinds \cup DeleteKinds
  /\ req.pc = "getTrip"
  /\ LET trip == getTrip(req.tripId) IN
       IF trip.live /\ isOwner(trip, req.user)
       THEN Continue(req, [req EXCEPT !.pc = writeCall(req.kind)])
       ELSE Continue(req, [req EXCEPT !.pc = "getTripMembers"])
  /\ UNCHANGED <<trips, tripMembers, children, lastRowid, creator, fkEnforced, load, weatherState>>

\* getTrip(schedule.tripId) or getTrip(item.tripId), and the owner check
ChildTrip(req) ==
  /\ resp = NoResp
  /\ req.kind \in PatchKinds \cup DeleteKinds
  /\ req.pc = "getTrip"
  /\ LET trip == getTrip(req.tripId) IN
       IF ~trip.live
       THEN Respond(req, 404, "Trip not found", NoRow)
       ELSE IF ~isOwner(trip, req.user)
       THEN Continue(req, [req EXCEPT !.pc = "getTripMembers"])
       ELSE Continue(req, [req EXCEPT !.pc = writeCall(req.kind)])
  /\ UNCHANGED <<trips, tripMembers, children, lastRowid, creator, fkEnforced, load, weatherState>>

\* getTripMembers, the isEditor check and the parse of the body
WriteMembers(req) ==
  /\ resp = NoResp
  /\ req.kind \in WriteKinds
  /\ req.pc = "getTripMembers"
  /\ IF ~isEditor(getTripMembers(req.tripId), req.user)
     THEN Respond(req, 403, writeDenied(req.kind), NoRow)
     ELSE IF ~req.data.ok
     THEN Respond(req, 400, "ZodError", NoRow)
     ELSE Continue(req, [req EXCEPT !.pc = writeCall(req.kind)])
  /\ UNCHANGED <<trips, tripMembers, children, lastRowid, creator, fkEnforced, load, weatherState>>

(* ------------------------ the store calls on schedules ----------------- *)
\* db.update(schedules).set(scheduleData).where(eq(schedules.id, id)): the table
\* afterwards; set() writes every column scheduleData carries
updateSchedule(id, scheduleData) ==
  IF id \in DOMAIN schedules /\ schedules[id].live
  THEN [schedules EXCEPT ![id] =
          [live |-> TRUE,
           tripId |-> IF scheduleData.tripId = Undefined THEN @.tripId
                      ELSE scheduleData.tripId,
           title |-> IF scheduleData.val = "undefined" THEN @.title
                     ELSE scheduleData.val]]
  ELSE schedules

\* createSchedule's insert
ScheduleInsert(req) ==
  /\ At(req, "postSchedule", "create")
  /\ Len(schedules) < MaxSchedules
  /\ IF childWriteAllowed(req.tripId)
     THEN /\ schedules' = Append(schedules, [live |-> TRUE, tripId |-> req.tripId,
                                             title |-> req.data.val])
          /\ lastRowid' = Len(schedules) + 1
          /\ Continue(req, [req EXCEPT !.pc = "readback"])
     ELSE /\ UNCHANGED <<schedules, lastRowid>>
          /\ Respond(req, 500, "FOREIGN KEY constraint failed", NoRow)
  /\ UNCHANGED <<trips, tripMembers, packingItems, creator, fkEnforced, load, weatherState>>

\* createSchedule's read-back of last_insert_rowid() and the 201 answer
ScheduleReadback(req) ==
  /\ At(req, "postSchedule", "readback")
  /\ Respond(req, 201, "", getSchedule(lastRowid))
  /\ UNCHANGED <<trips, tripMembers, children, lastRowid, creator, fkEnforced, load, weatherState>>

\* storage.updateSchedule and the 200 answer
ScheduleUpdate(req) ==
  /\ At(req, "patchSchedule", "update")
  /\ IF req.data.tripId # Undefined /\ getSchedule(req.id).live
        /\ ~childWriteAllowed(req.data.tripId)
     THEN /\ schedules' = schedules
          /\ Respond(req, 500, "FOREIGN KEY constraint failed", NoRow)
     ELSE /\ schedules' = updateSchedule(req.id, req.data)
          /\ Respond(req, 200, "", schedules'[req.id])
  /\ UNCHANGED <<trips, tripMembers, packingItems, lastRowid, creator, fkEnforced, load, weatherState>>

\* storage.deleteSchedule and the 204 answer
ScheduleDelete(req) ==
  /\ At(req, "deleteSchedule", "delete")
  /\ schedules' = [i \in DOMAIN schedules |->
                     IF i = req.id THEN NoRow ELSE schedules[i]]
  /\ Respond(req, 204, "", NoRow)
  /\ UNCHANGED <<trips, tripMembers, packingItems, lastRowid, creator, fkEnforced, load, weatherState>>

(* ------------------------ the store calls on packing_items ------------- *)
\* db.update(packingItems).set(itemData).where(eq(packingItems.id, id)): the table
\* afterwards
updatePackingItem(id, itemData) ==
  IF id \in DOMAIN packingItems /\ packingItems[id].live
  THEN [packingItems EXCEPT ![id] =
          [live |-> TRUE,
           tripId |-> IF itemData.tripId = Undefined THEN @.tripId
                      ELSE itemData.tripId,
           isPacked |-> IF itemData.val = "undefined" THEN @.isPacked
                        ELSE itemData.val = "true"]]
  ELSE packingItems

\* createPackingItem's insert: isPacked: false
PackingItemInsert(req) ==
  /\ At(req, "postPackingItem", "create")
  /\ Len(packingItems) < MaxPackingItems
  /\ IF childWriteAllowed(req.tripId)
     THEN /\ packingItems' = Append(packingItems,
               [live |-> TRUE, tripId |-> req.tripId, isPacked |-> FALSE])
          /\ lastRowid' = Len(packingItems) + 1
          /\ Continue(req, [req EXCEPT !.pc = "readback"])
     ELSE /\ UNCHANGED <<packingItems, lastRowid>>
          /\ Respond(req, 500, "FOREIGN KEY constraint failed", NoRow)
  /\ UNCHANGED <<trips, tripMembers, schedules, creator, fkEnforced, load, weatherState>>

\* createPackingItem's read-back of last_insert_rowid() and the 201 answer
PackingItemReadback(req) ==
  /\ At(req, "postPackingItem", "readback")
  /\ Respond(req, 201, "", getPackingItem(lastRowid))
  /\ UNCHANGED <<trips, tripMembers, children, lastRowid, creator, fkEnforced, load, weatherState>>

\* storage.updatePackingItem and the 200 answer
PackingItemUpdate(req) ==
  /\ At(req, "patchPackingItem", "update")
  /\ IF req.data.tripId # Undefined /\ getPackingItem(req.id).live
        /\ ~childWriteAllowed(req.data.tripId)
     THEN /\ packingItems' = packingItems
          /\ Respond(req, 500, "FOREIGN KEY constraint failed", NoRow)
     ELSE /\ packingItems' = updatePackingItem(req.id, req.data)
          /\ Respond(req, 200, "", packingItems'[req.id])
  /\ UNCHANGED <<trips, tripMembers, schedules, lastRowid, creator, fkEnforced, load, weatherState>>

\* storage.deletePackingItem and the 204 answer
PackingItemDelete(req) ==
  /\ At(req, "deletePackingItem", "delete")
  /\ packingItems' = [i \in DOMAIN packingItems |->
                        IF i = req.id THEN NoRow ELSE packingItems[i]]
  /\ Respond(req, 204, "", NoRow)
  /\ UNCHANGED <<trips, tripMembers, schedules, lastRowid, creator, fkEnforced, load, weatherState>>

(* ------------------------ the routes ------------------------------------ *)
\* the segments of a route's path that stand for a parameter
Params == {":id", ":location"}

\* the routes of registerRoutes, in the order of their registration; auth: the
\* route has the isAuthenticated middleware; kind: the handler
Route(method, path, auth, kind) ==
  [method |-> method, path |-> path, auth |-> auth, kind |-> kind]

routes ==
  << Route("GET", <<"api", "trips">>, TRUE, "listTrips"),
     Route("GET", <<"api", "trips", ":id">>, TRUE, "getTrip"),
     Route("POST", <<"api", "trips">>, TRUE, "createTrip"),
     Route("PATCH", <<"api", "trips", ":id">>, TRUE, "patchTrip"),
     Route("DELETE", <<"api", "trips", ":id">>, TRUE, "deleteTrip"),
     Route("GET", <<"api", "schedules">>, TRUE, "listSchedules"),
     Route("GET", <<"api", "trips", ":id", "schedules">>, TRUE, "getSchedules"),
     Route("POST", <<"api", "trips", ":id", "schedules">>, TRUE, "postSchedule"),
     Route("PATCH", <<"api", "schedules", ":id">>, TRUE, "patchSchedule"),
     Route("DELETE", <<"api", "schedules", ":id">>, TRUE, "deleteSchedule"),
     Route("GET", <<"api", "packing-items">>, TRUE, "listPackingItems"),
     Route("GET", <<"api", "trips", ":id", "packing-items">>, TRUE, "getPackingItems"),
     Route("POST", <<"api", "trips", ":id", "packing-items">>, TRUE, "postPackingItem"),
     Route("PATCH", <<"api", "packing-items", ":id">>, TRUE, "patchPackingItem"),
     Route("DELETE", <<"api", "packing-items", ":id">>, TRUE, "deletePackingItem"),
     Route("GET", <<"api", "packing-categories">>, FALSE, "packingCategories"),
     Route("GET", <<"api", "trip-tags">>, TRUE, "listTags"),
     Route("GET", <<"api", "trips", ":id", "tags">>, TRUE, "getTags"),
     Route("GET", <<"api", "shared-trips">>, TRUE, "sharedTrips"),
     Route("POST", <<"api", "trips", ":id", "share">>, TRUE, "share"),
     Route("GET", <<"api", "weather", ":location">>, TRUE, "weather"),
     Route("GET", <<"api", "weather", "next-trip">>, TRUE, "nextTrip") >>

\* the route's path matches the request's: segment by segment, a parameter
\* matching any segment
matches(pattern, path) ==
  /\ Len(pattern) = Len(path)
  /\ \A i \in DOMAIN pattern : pattern[i] \in Params \/ pattern[i] = path[i]

\* the route Express hands the request to: the first registered route of the
\* method whose path matches (no handler calls next()); 0 when none does
dispatch(method, path) ==
  LET hits == {r \in DOMAIN routes :
                 routes[r].method = method /\ matches(routes[r].path, path)} IN
    IF hits = {} THEN Undefined
    ELSE CHOOSE r \in hits : \A q \in hits : r <= q

(* ------------------------ requests without a session ------------------- *)
\* a path the route matches: "1" for an id, "Paris" for a location
concrete(path) ==
  [i \in DOMAIN path |-> IF path[i] = ":id" THEN "1"
                         ELSE IF path[i] = ":location" THEN "Paris"
                         ELSE path[i]]

\* the packing_categories table as drizzle-push.js fills it: id = position
packingCategories ==
  <<"Clothing", "Toiletries", "Electronics", "Documents", "Miscellaneous">>

\* select * from packing_categories order by name: the ids of the rows
getPackingCategories == DOMAIN packingCategories

\* a request that carries no session, to a route with isAuthenticated:
\* req.isAuthenticated() is false and the middleware answers 401
Unauthorized(method, path) ==
  /\ Accept
  /\ dispatch(method, path) # Undefined
  /\ routes[dispatch(method, path)].auth
  /\ Reject([kind |-> routes[dispatch(method, path)].kind, session |-> FALSE,
             method |-> method, path |-> path, pc |-> "isAuthenticated"],
            401, "Unauthorized")
  /\ UNCHANGED <<trips, tripMembers, children, lastRowid, creator, fkEnforced, load, weatherState>>

\* GET /api/packing-categories: no middleware stands before the handler, which
\* answers whoever asks, with a session or without
PackingCategoriesRoute(session) ==
  /\ Accept
  /\ ~routes[dispatch("GET", <<"api", "packing-categories">>)].auth
  /\ Answer([kind |-> "packingCategories", session |-> session, method |-> "GET",
             path |-> <<"api", "packing-categories">>, pc |-> "getPackingCategories"],
            200, "", [live |-> TRUE, rows |-> getPackingCategories])
  /\ UNCHANGED <<trips, tripMembers, children, lastRowid, creator, fkEnforced, load, weatherState>>

(* ------------------------ GET /api/trips, /schedules, /packing-items ---- *)
ListKinds == {"listTrips", "listSchedules", "listPackingItems"}

\* select ... where trip_id in (tripIds): the ids of the rows
listResult(kind, tripIds) ==
  CASE kind = "listTrips" -> tripIds
    [] kind = "listSchedules" ->
         {i \in DOMAIN schedules : schedules[i].live /\ schedules[i].tripId \in tripIds}
    [] kind = "listPackingItems" ->
         {i \in DOMAIN packingItems :
            packingItems[i].live /\ packingItems[i].tripId \in tripIds}

\* getTripsByUser; GET /api/trips answers with it, and so do the other two when
\* it is empty
ListStart(kind, u) ==
  /\ Accept
  /\ LET userTrips == getTripsByUser(u)
         req == [kind |-> kind, user |-> u, tripIds |-> userTrips, pc |-> "list"] IN
       IF kind = "listTrips" \/ userTrips = {}
       THEN Answer(req, 200, "", [live |-> TRUE, rows |-> listResult("listTrips", userTrips)])
       ELSE Enter(req)
  /\ UNCHANGED <<trips, tripMembers, children, lastRowid, creator, fkEnforced, load, weatherState>>

\* getSchedulesByUser's or getPackingItemsByUser's select, and the 200 answer
ListChildren(req) ==
  /\ resp = NoResp
  /\ req.kind \in ListKinds
  /\ req.pc = "list"
  /\ Respond(req, 200, "", [live |-> TRUE, rows |-> listResult(req.kind, req.tripIds)])
  /\ UNCHANGED <<trips, tripMembers, children, lastRowid, creator, fkEnforced, load, weatherState>>

(* ------------------------ weather.ts ------------------------------------ *)
\* the answers of the weather provider to a fetch: 2xx, another status, none
UpstreamStates == {"ok", "non2xx", "unreachable"}

\* Math.round(data.main.temp) in the provider's answers
Temperatures == {18, 21}

\* the day of a time: toISOString().split('T')[0], setHours(0, 0, 0, 0)
dayOf(time) == time \div TicksPerDay

\* location && location.trim() ? location : "London"
safeLocation(location) == IF location \in {"", "  "} THEN "London" ELSE location

\* JSON.stringify(weatherData): the values in the order of the keys
JSONstringify(w) == <<w.temperature, w.condition, w.location, w.date, w.icon>>

\* JSON.parse(cachedWeather.data)
JSONparse(data) ==
  [temperature |-> data[1], condition |-> data[2], location |-> data[3],
   date |-> data[4], icon |-> data[5]]

\* the payload getWeatherForLocation builds from the provider's answer
fetched(location, temperature) ==
  [temperature |-> temperature, condition |-> "Clear",
   location |-> safeLocation(location), date |-> dayOf(now), icon |-> "10d"]

\* a placeholder that names the location the fetch falls back to
placeholderLondon(location) ==
  [temperature |-> 25, condition |-> "Unknown", location |-> "London",
   date |-> dayOf(now), icon |-> "01d"]

\* the payload of the catch block of getWeatherForLocation
placeholder(location) ==
  [temperature |-> 25, condition |-> "Unknown", location |-> location,
   date |-> dayOf(now), icon |-> "01d"]

\* a location without its capitals and the spaces around it
lowerTrim(location) ==
  IF location \in {"Paris", "paris", "Paris "} THEN "paris" ELSE location

\* a select that compares locations without regard to case and surrounding spaces
getWeatherCacheNormalised(location) ==
  {c \in DOMAIN weatherCache :
     /\ lowerTrim(weatherCache[c].location) = lowerTrim(location)
     /\ \A d \in DOMAIN weatherCache :
          lowerTrim(weatherCache[d].location) = lowerTrim(location) =>
            weatherCache[d].timestamp <= weatherCache[c].timestamp}

\* select ... where location = ? order by timestamp desc limit 1: the rows it
\* may yield (rows of one timestamp come in an order the database chooses)
getWeatherCache(location) ==
  {c \in DOMAIN weatherCache :
     /\ weatherCache[c].location = location
     /\ \A d \in DOMAIN weatherCache :
          weatherCache[d].location = location =>
            weatherCache[d].timestamp <= weatherCache[c].timestamp}

\* a check of the row's age that lets a row of exactly thirty minutes pass
isFreshAtThirty(cachedWeather) == now - cachedWeather.timestamp <= cacheTime

\* new Date().getTime() - new Date(cachedWeather.timestamp).getTime() < cacheTime
isFresh(cachedWeather) == now - cachedWeather.timestamp < cacheTime

\* the trips left in the order of the database: startDate descending
sortedTripsDesc(ids) ==
  {s \in [1..Cardinality(ids) -> ids] :
     /\ \A i, j \in DOMAIN s : i # j => s[i] # s[j]
     /\ \A i, j \in DOMAIN s : i < j => trips[s[i]].startDate >= trips[s[j]].startDate}

\* [...trips].sort by startDate ascending: the orders the sort may yield (trips of
\* one startDate stay in the order in which the database returned them)
sortedTrips(ids) ==
  {s \in [1..Cardinality(ids) -> ids] :
     /\ \A i, j \in DOMAIN s : i # j => s[i] # s[j]
     /\ \A i, j \in DOMAIN s : i < j => trips[s[i]].startDate <= trips[s[j]].startDate}

\* sortedTrips.find(trip => startDate at midnight >= today at midnight):
\* the first such trip, Undefined when there is none
RECURSIVE findNextTrip(_, _)
findNextTrip(sorted, i) ==
  IF i > Len(sorted) THEN Undefined
  ELSE IF dayOf(trips[sorted[i]].startDate) >= dayOf(now) THEN sorted[i]
  ELSE findNextTrip(sorted, i + 1)

\* the user of a request whose handler never looks at req.user
Anyone == Undefined

\* GET /api/weather/...: Express picks the handler, which makes its first call
WeatherRoute(u, path) ==
  /\ Accept
  /\ LET kind == routes[dispatch("GET", path)].kind IN
       IF kind = "weather"
       THEN Enter([kind |-> "weather", user |-> Anyone, path |-> path,
                   location |-> path[3], pc |-> "getWeatherCache"])
       ELSE Enter([kind |-> "nextTrip", user |-> u, path |-> path,
                   location |-> "undefined", pc |-> "getTripsByUser"])
  /\ UNCHANGED <<trips, tripMembers, children, lastRowid, creator, fkEnforced, load, weatherState>>

\* the handler registered for /api/weather/next-trip is run
NextTripHandler(u) ==
  /\ Accept
  /\ Enter([kind |-> "nextTrip", user |-> u, path |-> <<"api", "weather", "next-trip">>,
            location |-> "undefined", pc |-> "getTripsByUser"])
  /\ UNCHANGED <<trips, tripMembers, children, lastRowid, creator, fkEnforced, load, weatherState>>

\* getNextTripWeather: getTripsByUser, the sort and the find; null is answered 404
NextTripFind(req) ==
  /\ At(req, "nextTrip", "getTripsByUser")
  /\ IF ~dbUp
     THEN Respond(req, 404, "No upcoming trips found", NoRow)
     ELSE \E sorted \in sortedTrips(getTripsByUser(req.user)) :
            LET nextTrip == findNextTrip(sorted, 1) IN
              IF nextTrip = Undefined
              THEN Respond(req, 404, "No upcoming trips found", NoRow)
              ELSE Continue(req, [req EXCEPT !.location = trips[nextTrip].destination,
                                             !.pc = "getWeatherCache"])
  /\ UNCHANGED <<trips, tripMembers, children, lastRowid, creator, fkEnforced, load, weatherState>>

\* getWeatherForLocation: getWeatherCache and the check of the row's age
WeatherCached(req) ==
  /\ resp = NoResp
  /\ req.kind \in {"weather", "nextTrip"}
  /\ req.pc = "getWeatherCache"
  /\ IF ~dbUp
     THEN Respond(req, 200, "", placeholder(req.location))
     ELSE IF getWeatherCache(req.location) = {}
     THEN Continue(req, [req EXCEPT !.pc = "fetch"])
     ELSE \E c \in getWeatherCache(req.location) :
            IF isFresh(weatherCache[c])
            THEN Respond(req, 200, "", JSONparse(weatherCache[c].data))
            ELSE Continue(req, [req EXCEPT !.pc = "fetch"])
  /\ UNCHANGED <<trips, tripMembers, children, lastRowid, creator, fkEnforced, load, weatherState>>

\* a fetch whose failure goes on to cache the placeholder
WeatherFetchCachesPlaceholder(req) ==
  /\ resp = NoResp
  /\ req.kind \in {"weather", "nextTrip"}
  /\ req.pc = "fetch"
  /\ \E temperature \in Temperatures :
       Continue(req, [kind |-> req.kind, user |-> req.user, path |-> req.path,
                      location |-> req.location,
                      weatherData |-> IF upstream # "ok" THEN placeholder(req.location)
                                      ELSE fetched(req.location, temperature),
                      pc |-> "saveWeatherCache"])
  /\ UNCHANGED <<trips, tripMembers, children, lastRowid, creator, fkEnforced, load, weatherState>>

\* getWeatherForLocation: the fetch and the reading of its answer
WeatherFetch(req) ==
  /\ resp = NoResp
  /\ req.kind \in {"weather", "nextTrip"}
  /\ req.pc = "fetch"
  /\ IF upstream # "ok"
     THEN Respond(req, 200, "", placeholder(req.location))
     ELSE \E temperature \in Temperatures :
            Continue(req, [kind |-> req.kind, user |-> req.user, path |-> req.path,
                           location |-> req.location,
                           weatherData |-> fetched(req.location, temperature),
                           pc |-> "saveWeatherCache"])
  /\ UNCHANGED <<trips, tripMembers, children, lastRowid, creator, fkEnforced, load, weatherState>>

\* a save that inserts nothing when the location has a row that is still fresh
WeatherSaveOnce(req) ==
  /\ resp = NoResp
  /\ req.kind \in {"weather", "nextTrip"}
  /\ req.pc = "saveWeatherCache"
  /\ IF ~dbUp
     THEN /\ Respond(req, 200, "", placeholder(req.location))
          /\ UNCHANGED <<weatherCache, lastRowid>>
     ELSE IF \E c \in getWeatherCache(req.location) : isFresh(weatherCache[c])
     THEN /\ Continue(req, [req EXCEPT !.pc = "readback"])
          /\ UNCHANGED <<weatherCache, lastRowid>>
     ELSE /\ Len(weatherCache) < MaxCacheRows
          /\ weatherCache' = Append(weatherCache,
               [location |-> req.location, data |-> JSONstringify(req.weatherData),
                timestamp |-> now])
          /\ lastRowid' = Len(weatherCache) + 1
          /\ Continue(req, [req EXCEPT !.pc = "readback"])
  /\ UNCHANGED <<trips, tripMembers, children, creator, fkEnforced, load, now, dbUp, upstream, forecast>>

\* saveWeatherCache's insert
WeatherSave(req) ==
  /\ resp = NoResp
  /\ req.kind \in {"weather", "nextTrip"}
  /\ req.pc = "saveWeatherCache"
  /\ IF ~dbUp
     THEN /\ Respond(req, 200, "", placeholder(req.location))
          /\ UNCHANGED <<weatherCache, lastRowid>>
     ELSE /\ Len(weatherCache) < MaxCacheRows
          /\ weatherCache' = Append(weatherCache,
               [location |-> req.location, data |-> JSONstringify(req.weatherData),
                timestamp |-> now])
          /\ lastRowid' = Len(weatherCache) + 1
          /\ Continue(req, [req EXCEPT !.pc = "readback"])
  /\ UNCHANGED <<trips, tripMembers, children, creator, fkEnforced, load, now, dbUp, upstream, forecast>>

\* saveWeatherCache's read-back, which getWeatherForLocation does not look at,
\* and the answer
WeatherReadback(req) ==
  /\ resp = NoResp
  /\ req.kind \in {"weather", "nextTrip"}
  /\ req.pc = "readback"
  /\ IF ~dbUp
     THEN Respond(req, 200, "", placeholder(req.location))
     ELSE Respond(req, 200, "", req.weatherData)
  /\ UNCHANGED <<trips, tripMembers, children, lastRowid, creator, fkEnforced, load, weatherState>>

(* ------------------------ weather.ts: getForecast ---------------------- *)
\* the days and the times of day in the provider's dt_txt, "YYYY-MM-DD HH:MM:SS"
ForecastDays == {"2026-11-05", "2026-11-06"}
ForecastTimes == {"09:00:00", "12:00:00", "15:00:00"}

\* the items of data.list: dt_txt as its two parts, main.temp
ForecastItems == [dt_txt : ForecastDays \X ForecastTimes, temp : Temperatures]

\* the lists the provider may send
ForecastLists == UNION {[1..n -> ForecastItems] : n \in 0..MaxItems}

\* item.dt_txt.split(' ')[0] and [1]
dateOf(item) == item.dt_txt[1]
timeOf(item) == item.dt_txt[2]

\* forecastByDay.has(date): the Map as the sequence of its entries, in insertion order
has(byDay, date) == \E k \in DOMAIN byDay : byDay[k].date = date

\* forecastByDay.set(date, item): a new key goes to the end, a key the Map has
\* keeps its place
set(byDay, date, item) ==
  IF has(byDay, date)
  THEN [k \in DOMAIN byDay |-> IF byDay[k].date = date
                                THEN [date |-> date, item |-> item] ELSE byDay[k]]
  ELSE Append(byDay, [date |-> date, item |-> item])

\* a loop that keeps the first item of each day
takesFirst(byDay, item) == ~has(byDay, dateOf(item))

\* time === '12:00:00' || !forecastByDay.has(date)
takes(byDay, item) ==
  timeOf(item) = "12:00:00" \/ ~has(byDay, dateOf(item))

\* for (const item of data.list) ...: the Map after the items from i on
RECURSIVE forecastByDay(_, _, _)
forecastByDay(list, i, byDay) ==
  IF i > Len(list) THEN byDay
  ELSE forecastByDay(list, i + 1,
                     IF takes(byDay, list[i]) THEN set(byDay, dateOf(list[i]), list[i])
                     ELSE byDay)

\* for (const [date, item] of forecastByDay.entries()) forecast.push(...)
formatForecast(byDay, location) ==
  [k \in DOMAIN byDay |->
     [temperature |-> byDay[k].item.temp, condition |-> "Clear",
      location |-> safeLocation(location), date |-> byDay[k].date, icon |-> "10d"]]

\* getForecast(location) is called: up to its await of fetch
GetForecast(location) ==
  /\ resp = NoResp
  /\ "location" \notin DOMAIN forecast
  /\ forecast' = [called |-> FALSE, location |-> location]
  /\ UNCHANGED <<trips, tripMembers, children, lastRowid, creator, fkEnforced, load,
                 inflight, resp, weatherCache, now, dbUp, upstream>>

\* the provider answers, with list when it answers 2xx, and getForecast returns
ForecastAnswer(list) ==
  /\ resp = NoResp
  /\ "location" \in DOMAIN forecast
  /\ forecast' = [called |-> TRUE, ok |-> upstream = "ok", list |-> list,
                  out |-> IF upstream = "ok"
                          THEN formatForecast(forecastByDay(list, 1, <<>>),
                                              forecast.location)
                          ELSE <<>>]
  /\ UNCHANGED <<trips, tripMembers, children, lastRowid, creator, fkEnforced, load,
                 inflight, resp, weatherCache, now, dbUp, upstream>>

\* a quarter of an hour passes
Tick ==
  /\ resp = NoResp
  /\ now < Evening + MaxTicks
  /\ now' = now + 1
  /\ UNCHANGED <<trips, tripMembers, children, lastRowid, creator, fkEnforced, load,
                 inflight, resp, weatherCache, dbUp, upstream, forecast>>

\* the database stops answering, or answers again
Outage ==
  /\ resp = NoResp
  /\ dbUp' = ~dbUp
  /\ UNCHANGED <<trips, tripMembers, children, lastRowid, creator, fkEnforced, load,
                 inflight, resp, weatherCache, now, upstream, forecast>>

\* the weather provider changes how it answers
Provider ==
  /\ resp = NoResp
  /\ upstream' \in UpstreamStates \ {upstream}
  /\ UNCHANGED <<trips, tripMembers, children, lastRowid, creator, fkEnforced, load,
                 inflight, resp, weatherCache, now, dbUp, forecast>>

(* ---------------------------- the system ------------------------------- *)
\* the response has left: resp holds only the response of the step just taken
Sent ==
  /\ resp # NoResp
  /\ resp' = NoResp
  /\ UNCHANGED <<trips, tripMembers, children, lastRowid, creator, fkEnforced, load, weatherState, inflight>>

\* nothing is cached, the database and the weather provider answer
Quiet ==
  /\ weatherCache = <<>>
  /\ now = Evening
  /\ dbUp = TRUE
  /\ upstream = "ok"
  /\ forecast = NoForecast

\* what the bodies of the trip requests carry when dates are not the matter
PlainTrips == [dates |-> {Today}, destinations |-> {"Paris"}]

\* the server has started on a database that holds the users only
Started ==
  /\ trips = <<>>
  /\ tripMembers = <<>>
  /\ schedules = <<>>
  /\ packingItems = <<>>
  /\ lastRowid = 0
  /\ creator = <<>>
  /\ fkEnforced \in BOOLEAN
  /\ inflight = EmptyBag
  /\ resp = NoResp
  /\ Quiet

Init ==
  /\ Started
  /\ load = [trips |-> MaxTrips, inflight |-> MaxInFlight] @@ PlainTrips

\* the bodies of POST /api/trips and PATCH /api/trips/:id in this run
TripBodies ==
  [isShared : BodyIsShared, userId : BodyUserIds, destination : load.destinations,
   startDate : load.dates, endDate : load.dates]

Handlers == BagToSet(inflight)

CreateTrip ==
  \/ \E u \in UserIds, body \in TripBodies : CreateTripInsert(u, body)
  \/ \E req \in Handlers : CreateTripReadback(req)

PatchTrip ==
  \/ \E u \in UserIds, t \in TripIds, body \in TripBodies : PatchTripStart(u, t, body)
  \/ \E req \in Handlers : PatchTripUpdate(req)

DeleteTrip ==
  \/ \E u \in UserIds, t \in TripIds : DeleteTripStart(u, t)
  \/ \E req \in Handlers : DeleteTripDelete(req)

Share ==
  \/ \E u \in UserIds, t \in TripIds, username \in BodyUsernames, role \in BodyRoles :
       ShareStart(u, t, username, role)
  \/ \E req \in Handlers : ShareCheck(req)
  \/ \E req \in Handlers : ShareMark(req)
  \/ \E req \in Handlers : ShareInsert(req)
  \/ \E req \in Handlers : ShareReadback(req)

ScheduleBodies == [tripId : BodyTripIds, val : BodyTitles]
SchedulePatches == [tripId : BodyTripIds, val : BodyNewTitles]
PackingItemBodies == [tripId : BodyTripIds, val : BodyIsPacked]
NoBody == [tripId |-> Undefined, val |-> "undefined"]

Read ==
  \/ \E kind \in ReadKinds, u \in UserIds, t \in TripIds : ReadStart(kind, u, t)
  \/ \E req \in Handlers : ReadMembers(req)
  \/ \E req \in Handlers : ReadList(req)

WriteSchedule ==
  \/ \E u \in UserIds, t \in TripIds, body \in ScheduleBodies :
       PostStart("postSchedule", u, t, body)
  \/ \E u \in UserIds, id \in ScheduleIds, body \in SchedulePatches :
       ChildStart("patchSchedule", u, id, body)
  \/ \E u \in UserIds, id \in ScheduleIds : ChildStart("deleteSchedule", u, id, NoBody)
  \/ \E req \in Handlers : ScheduleInsert(req)
  \/ \E req \in Handlers : ScheduleReadback(req)
  \/ \E req \in Handlers : ScheduleUpdate(req)
  \/ \E req \in Handlers : ScheduleDelete(req)

WritePackingItem ==
  \/ \E u \in UserIds, t \in TripIds, body \in PackingItemBodies :
       PostStart("postPackingItem", u, t, body)
  \/ \E u \in UserIds, id \in PackingItemIds, body \in PackingItemBodies :
       ChildStart("patchPackingItem", u, id, body)
  \/ \E u \in UserIds, id \in PackingItemIds :
       ChildStart("deletePackingItem", u, id, NoBody)
  \/ \E req \in Handlers : PackingItemInsert(req)
  \/ \E req \in Handlers : PackingItemReadback(req)
  \/ \E req \in Handlers : PackingItemUpdate(req)
  \/ \E req \in Handlers : PackingItemDelete(req)

\* the authorization steps PATCH, DELETE and POST of schedules and packing items share
WriteCheck ==
  \/ \E req \in Handlers : ChildTrip(req)
  \/ \E req \in Handlers : WriteMembers(req)

Next ==
  \/ CreateTrip \/ PatchTrip \/ DeleteTrip \/ Share
  \/ Read \/ WriteSchedule \/ WritePackingItem \/ WriteCheck
  \/ Sent

Spec == Init /\ [][Next]_vars

\* the sharing workflow and the owner's requests on one trip, handled concurrently
InitShare ==
  /\ Started
  /\ load = [trips |-> 1, inflight |-> MaxInFlight] @@ PlainTrips

NextShare ==
  \/ CreateTrip \/ PatchTrip \/ DeleteTrip \/ Share \/ Sent

SpecShare == InitShare /\ [][NextShare]_vars

\* the same requests, each handled to its end before the next is taken
InitSeq ==
  /\ Started
  /\ load = [trips |-> 1, inflight |-> 1] @@ PlainTrips

SpecSeq == InitSeq /\ [][NextShare]_vars

\* reads and writes of the children of two trips that earlier requests have created
\* and shared: alice's trip 1 and bob's trip 2, with the membership rows that
\* POST /api/trips/:id/share can have stored (any role: the body's role is stored)
StoredRoles == {"viewer", "editor", "owner"}

MemberRows == [tripId : TripIds, userId : UserIds, role : StoredRoles]

\* the tables the shares of the owners alice (trip 1) and bob (trip 2) leave,
\* one share per user and trip, in the order of (tripId, userId)
SharedTables ==
  {m \in UNION {[1..n -> MemberRows] : n \in 0..MaxMembers} :
     /\ \A i \in DOMAIN m : m[i].tripId <= 2 /\ m[i].userId # m[i].tripId
     /\ \A i, j \in DOMAIN m :
          i < j => \/ m[i].tripId < m[j].tripId
                   \/ m[i].tripId = m[j].tripId /\ m[i].userId < m[j].userId}

\* both trips and the membership rows their owners' shares have stored
Shared ==
  /\ tripMembers \in SharedTables
  /\ trips = [t \in 1..2 |-> [live |-> TRUE, userId |-> t,
                               isShared |-> getTripMembers(t) # {},
                               destination |-> "Paris",
                               startDate |-> Today, endDate |-> Today]]
  /\ creator = <<1, 2>>
  /\ inflight = EmptyBag
  /\ resp = NoResp
  /\ Quiet

InitAccess ==
  /\ Shared
  /\ schedules = <<>>
  /\ packingItems = <<>>
  /\ lastRowid = IF tripMembers = <<>> THEN 2 ELSE Len(tripMembers)
  \* both trips exist throughout: REFERENCES trips(id) holds, enforced or not
  /\ fkEnforced = TRUE
  /\ load = [trips |-> 2, inflight |-> 1] @@ PlainTrips

NextAccess ==
  \/ Read \/ WriteSchedule \/ WritePackingItem \/ WriteCheck \/ Sent

SpecAccess == InitAccess /\ [][NextAccess]_vars

\* the owner-only requests on the two shared trips, each with a child row that
\* POST /api/trips/:id/schedules and POST /api/trips/:id/packing-items have stored
InitOwner ==
  /\ Shared
  /\ schedules = <<[live |-> TRUE, tripId |-> 1, title |-> "Louvre"]>>
  /\ packingItems = <<[live |-> TRUE, tripId |-> 2, isPacked |-> FALSE]>>
  /\ lastRowid = 1
  /\ fkEnforced \in BOOLEAN
  /\ load = [trips |-> 2, inflight |-> 1] @@ PlainTrips

NextOwner ==
  \/ PatchTrip \/ DeleteTrip \/ Share \/ Sent

SpecOwner == InitOwner /\ [][NextOwner]_vars

\* the requests that carry no session: one for each registered route
Sessionless ==
  \/ \E r \in DOMAIN routes : Unauthorized(routes[r].method, concrete(routes[r].path))
  \/ PackingCategoriesRoute(FALSE)

List ==
  \/ \E kind \in ListKinds, u \in UserIds : ListStart(kind, u)
  \/ \E req \in Handlers : ListChildren(req)
  \/ PackingCategoriesRoute(TRUE)

\* the lists of the signed-in user and the requests without a session, one at a
\* time, on the two shared trips and their children, while the owners share
NextLists ==
  \/ List \/ Sessionless \/ Share \/ Sent

SpecLists == InitOwner /\ [][NextLists]_vars

\* trips created and updated, one request at a time, with bodies that carry a
\* destination or none and, for each date, today, tomorrow or nothing
DatedTrips ==
  [dates |-> {Undefined, Morning(0), Morning(1)}, destinations |-> {"undefined", "Paris"}]

InitDates ==
  /\ Started
  /\ fkEnforced = TRUE
  /\ load = [trips |-> 1, inflight |-> 1] @@ DatedTrips

NextDates ==
  \/ CreateTrip \/ PatchTrip \/ Sent

SpecDates == InitDates /\ [][NextDates]_vars

\* the paths of the weather requests
WeatherPaths == {<<"api", "weather", "Paris">>, <<"api", "weather", "next-trip">>}

WeatherRoutes ==
  \E u \in UserIds, path \in WeatherPaths : WeatherRoute(u, path)

Weather ==
  \/ \E req \in Handlers : WeatherCached(req)
  \/ \E req \in Handlers : WeatherFetch(req)
  \/ \E req \in Handlers : WeatherSave(req)
  \/ \E req \in Handlers : WeatherReadback(req)

NextTrip ==
  \/ \E u \in UserIds : NextTripHandler(u)
  \/ \E req \in Handlers : NextTripFind(req)

\* the weather requests, handled concurrently while time passes and the database
\* and the weather provider come and go
InitWeather ==
  /\ Started
  /\ fkEnforced = TRUE
  /\ load = [trips |-> MaxTrips, inflight |-> MaxInFlight] @@ PlainTrips

NextWeather ==
  \/ WeatherRoutes \/ Weather \/ Tick \/ Outage \/ Provider \/ Sent

SpecWeather == InitWeather /\ [][NextWeather]_vars

\* calls of getForecast, for every list of up to MaxItems items the provider may
\* send, while the provider fails and recovers
Forecast ==
  \/ GetForecast("Paris")
  \/ \E list \in ForecastLists : ForecastAnswer(list)

InitForecast ==
  /\ Started
  /\ fkEnforced = TRUE
  /\ load = [trips |-> MaxTrips, inflight |-> 1] @@ PlainTrips

NextForecast ==
  \/ Forecast \/ Provider

SpecForecast == InitForecast /\ [][NextForecast]_vars

\* requests that name one city in three spellings, one at a time
CachePaths ==
  {<<"api", "weather", "Paris">>, <<"api", "weather", "paris">>,
   <<"api", "weather", "Paris ">>}

CacheRoutes ==
  \E u \in UserIds, path \in CachePaths : WeatherRoute(u, path)

InitCache ==
  /\ Started
  /\ fkEnforced = TRUE
  /\ load = [trips |-> MaxTrips, inflight |-> 1] @@ PlainTrips

NextCache ==
  \/ CacheRoutes \/ Weather \/ Tick \/ Outage \/ Provider \/ Sent

SpecCache == InitCache /\ [][NextCache]_vars

\* the trips alice and bob have created: yesterday's, today's or tomorrow's, the
\* first to Paris and the second to Rome
StartDates == {Morning(-1), Morning(0), Morning(1)}

PlannedTrips ==
  {t \in UNION {[1..n -> [live : {TRUE}, userId : {1, 2}, isShared : {FALSE},
                          destination : {"Paris", "Rome"}, startDate : StartDates,
                          endDate : {Morning(1)}]] : n \in 0..MaxTrips} :
     \A i \in DOMAIN t : t[i].destination = IF i = 1 THEN "Paris" ELSE "Rome"}

\* the handler of /api/weather/next-trip, run for one request at a time on the
\* trips users have created, while time passes and the database and the weather
\* provider come and go
InitNextTrip ==
  /\ trips \in PlannedTrips
  /\ creator = [t \in DOMAIN trips |-> trips[t].userId]
  /\ tripMembers = <<>>
  /\ schedules = <<>>
  /\ packingItems = <<>>
  /\ lastRowid = Len(trips)
  /\ fkEnforced = TRUE
  /\ inflight = EmptyBag
  /\ resp = NoResp
  /\ Quiet
  /\ load = [trips |-> MaxTrips, inflight |-> 1] @@ PlainTrips

NextNextTrip ==
  \/ NextTrip \/ Weather \/ Tick \/ Outage \/ Provider \/ Sent

SpecNextTrip == InitNextTrip /\ [][NextNextTrip]_vars

\* every trip-scoped request, one at a time, on the two trips, of which alice has
\* shared the first with bob
InitScoped ==
  /\ Shared
  /\ tripMembers = <<[tripId |-> 1, userId |-> 2, role |-> "viewer"]>>
  /\ schedules = <<>>
  /\ packingItems = <<>>
  /\ lastRowid = 1
  /\ fkEnforced \in BOOLEAN
  /\ load = [trips |-> 2, inflight |-> 1] @@ PlainTrips

\* the share requests of the owners of two trips that no one has shared yet, one
\* at a time, while the database fails and recovers: a store call that the
\* database does not answer rejects, and the handler's catch answers 500
InitAtomic ==
  /\ Shared
  /\ tripMembers = <<>>
  /\ schedules = <<>>
  /\ packingItems = <<>>
  /\ lastRowid = 2
  /\ fkEnforced = TRUE
  /\ load = [trips |-> 2, inflight |-> 1] @@ PlainTrips

NextAtomic ==
  \/ Share \/ Outage \/ Sent

SpecAtomic == InitAtomic /\ [][NextAtomic]_vars

\* POST /api/trips/:id/share with carol's name and no role in the body
ShareWithCarol ==
  \/ \E u \in UserIds, t \in TripIds : ShareStart(u, t, "carol", "undefined")
  \/ \E req \in Handlers : ShareCheck(req)
  \/ \E req \in Handlers : ShareMark(req)
  \/ \E req \in Handlers : ShareInsert(req)
  \/ \E req \in Handlers : ShareReadback(req)

NextScoped ==
  \/ PatchTrip \/ DeleteTrip \/ ShareWithCarol
  \/ Read \/ WriteSchedule \/ WritePackingItem \/ WriteCheck
  \/ Sent

SpecScoped == InitScoped /\ [][NextScoped]_vars

(* ---------------------------- the claims ------------------------------- *)
\* the membership rows user u holds for trip t
RowsOf(u, t) ==
  {m \in DOMAIN tripMembers : tripMembers[m].tripId = t /\ tripMembers[m].userId = u}

\* the specification's canRead: u owns t or holds a membership row for it
canRead(u, t) == trips[t].userId = u \/ RowsOf(u, t) # {}

\* the specification's canWrite: u owns t or holds a row of role editor or owner
canWrite(u, t) ==
  \/ trips[t].userId = u
  \/ \E m \in RowsOf(u, t) : tripMembers[m].role \in {"editor", "owner"}

\* what a read of trip t returns for each endpoint
ReadOf(kind, t) ==
  CASE kind = "getTrip" -> {t}
    [] kind = "getSchedules" ->
         {i \in DOMAIN schedules : schedules[i].live /\ schedules[i].tripId = t}
    [] kind = "getPackingItems" ->
         {i \in DOMAIN packingItems :
            packingItems[i].live /\ packingItems[i].tripId = t}
    [] kind = "getTags" -> {}

\* C1: a read of an existing trip (the trip, its schedules, its packing items, its
\* tags) is answered 200 with the trip's own data exactly when the requester owns
\* the trip or holds a membership row for it, of any role; otherwise it is answered
\* 403 and carries nothing.
C1_ReadAccess ==
  (resp # NoResp /\ resp.op \in ReadKinds /\ getTrip(resp.req.tripId).live) =>
    LET u == resp.req.user
        t == resp.req.tripId IN
      /\ resp.status \in {200, 403}
      /\ (resp.status = 200) <=> canRead(u, t)
      /\ resp.status = 200 => resp.body = [live |-> TRUE, rows |-> ReadOf(resp.op, t)]
      /\ resp.status = 403 => resp.body = NoRow

\* C1 happens: a member who is a viewer, not the owner, is sent the trip's schedules
C1_Witness ==
  /\ resp.op = "getSchedules"
  /\ resp.status = 200
  /\ trips[resp.req.tripId].userId # resp.req.user
  /\ \A m \in RowsOf(resp.req.user, resp.req.tripId) : tripMembers[m].role = "viewer"
  /\ resp.body.rows # {}

\* C2: a request that creates, updates or deletes a schedule or a packing item of an
\* existing trip is answered 403 exactly when the requester neither owns the trip
\* nor holds a membership row of role editor or owner for it; the step that
\* answers 403 changes no row, and rows of schedules and packing_items change only
\* in a step of a request whose requester may write the trip.
C2_Step ==
  /\ (resp' # NoResp /\ resp'.op \in WriteKinds /\ getTrip(resp'.req.tripId).live) =>
       /\ (resp'.status = 403) <=> ~canWrite(resp'.req.user, resp'.req.tripId)
       /\ resp'.status = 403 => UNCHANGED children
  /\ children' # children =>
       \E req \in Handlers : /\ req.kind \in WriteKinds
                             /\ req.pc = writeCall(req.kind)
                             /\ canWrite(req.user, req.tripId)

OwnerOps == {"patchTrip", "deleteTrip", "share"}

\* C3: PATCH /api/trips/:id, DELETE /api/trips/:id and POST /api/trips/:id/share
\* are answered with success only to the trip's owner; any other user, whatever
\* membership row they hold, is answered 403 on an existing trip, in a step that
\* changes no row of trips, trip_members, schedules or packing_items; and these
\* tables change only in a step of a request of the owner.
C3_Step ==
  /\ (resp' # NoResp /\ resp'.op \in OwnerOps) =>
       LET u == resp'.req.user
           t == resp'.req.tripId IN
         /\ resp'.status \in {200, 201, 204} => t \in DOMAIN creator /\ creator[t] = u
         /\ (getTrip(t).live /\ trips[t].userId # u) =>
              /\ resp'.status = 403
              /\ UNCHANGED <<trips, tripMembers, children>>
  /\ <<trips, tripMembers, children>>' # <<trips, tripMembers, children>> =>
       \E req \in Handlers : /\ req.kind \in OwnerOps
                             /\ creator[req.tripId] = req.user
  /\ \A t \in DOMAIN trips : trips[t].live => trips[t].userId = creator[t]

C3_OwnerOnly == [][C3_Step]_vars

\* C3 happens: a member of role "owner" asks to share a trip that has a schedule
\* and is answered 403
C3_Witness ==
  /\ resp.op = "share"
  /\ resp.status = 403
  /\ \E m \in RowsOf(resp.req.user, resp.req.tripId) : tripMembers[m].role = "owner"
  /\ getSchedulesByTrip(resp.req.tripId) # {}

\* C4, after a share is answered: the target holds exactly one membership row for
\* the trip; a 201 carries that row, of role "viewer" when the body gave no role
C4_After ==
  (resp # NoResp /\ resp.op = "share" /\ "shareWith" \in DOMAIN resp.req) =>
    LET rows == RowsOf(resp.req.shareWith, resp.req.tripId) IN
      /\ resp.status \in {201, 400}
      /\ Cardinality(rows) = 1
      /\ resp.status = 201 =>
           /\ resp.body.live
           /\ resp.body.id \in rows
           /\ resp.body.tripId = resp.req.tripId
           /\ resp.body.userId = resp.req.shareWith
           /\ resp.req.role = "undefined" => resp.body.role = "viewer"
      /\ resp.status = 400 =>
           /\ resp.msg = "Trip already shared with this user"
           /\ resp.body = NoRow

\* C4: with requests handled one after the other, a share with a user who holds no
\* row for the trip is answered 201 with the new row, of role "viewer" when no role
\* was given; a share with a user who holds a row is answered 400 "Trip already
\* shared with this user" in a step that adds no row; so one row per trip and user.
C4_Step ==
  /\ C4_After'
  /\ \A req \in Handlers :
       (req.kind = "share" /\ req.pc = "getTripMembers"
          /\ RowsOf(req.shareWith, req.tripId) # {}) =>
         /\ resp'.op = "share"
         /\ resp'.status = 400
         /\ tripMembers' = tripMembers
  /\ \A t \in TripIds, u \in UserIds : Cardinality(RowsOf(u, t)') <= 1

C4_ShareTwice == [][C4_Step]_vars

\* C4 happens: the second share is refused and the one row is the default "viewer"
C4_Witness ==
  /\ resp.op = "share"
  /\ resp.status = 400
  /\ resp.msg = "Trip already shared with this user"
  /\ \A m \in RowsOf(resp.req.shareWith, resp.req.tripId) :
       tripMembers[m].role = "viewer"

\* C5: whatever the interleaving of share requests, no user holds two membership
\* rows for the same trip.
C5_Unique ==
  \A t \in TripIds, u \in UserIds : Cardinality(RowsOf(u, t)) <= 1

\* the handler req takes this step
Steps(req) == CopiesIn(req, inflight') < CopiesIn(req, inflight)

\* C6: a share request on an existing trip is answered 403 when the requester is
\* not the owner, 404 "User not found" when the username names no user, 400
\* "Cannot share trip with yourself" when it names the owner, and 400 "Trip
\* already shared with this user" when the target holds a membership row as the
\* handler looks; each of these answers comes in a step that changes no row of
\* trips (so no isShared) and no row of trip_members, from a handler that has
\* written nothing.
C6_Step ==
  /\ (resp' # NoResp /\ resp'.op = "share" /\ getTrip(resp'.req.tripId).live) =>
       LET r == resp'.req
           owns == trips[r.tripId].userId = r.user
           failed == resp'.status \in {400, 403, 404} IN
         /\ ~owns <=> resp'.status = 403
         /\ resp'.status = 403 => resp'.msg = "Not authorized to share this trip"
         /\ "username" \in DOMAIN r =>
              /\ owns
              /\ failed
              /\ r.username = "" <=> resp'.msg = "Username is required"
              /\ (r.username # "" /\ \A i \in UserIds : users[i] # r.username) <=>
                   (resp'.status = 404 /\ resp'.msg = "User not found")
              /\ users[r.user] = r.username <=>
                   resp'.msg = "Cannot share trip with yourself"
         /\ failed =>
              /\ UNCHANGED <<trips, tripMembers>>
              /\ \/ inflight' = inflight
                 \/ \E req \in Handlers : Steps(req) /\ req.pc = "getTripMembers"
  /\ \A req \in Handlers :
       (req.kind = "share" /\ req.pc = "getTripMembers" /\ Steps(req)) =>
          (RowsOf(req.shareWith, req.tripId) # {} <=>
             /\ resp'.op = "share"
             /\ resp'.status = 400
             /\ resp'.msg = "Trip already shared with this user")

C6_ShareFailures == [][C6_Step]_vars

\* C6 happens: a share with a user that does not exist is answered 404 while the
\* trip is shared and has a member, and another share is being handled
C6_Witness ==
  /\ resp.op = "share"
  /\ resp.msg = "User not found"
  /\ getTripMembers(resp.req.tripId) # {}
  /\ trips[resp.req.tripId].isShared
  /\ inflight # EmptyBag

\* C7: every membership row has role viewer or editor.
C7_Roles ==
  \A m \in DOMAIN tripMembers : tripMembers[m].role \in {"viewer", "editor"}

\* C8: with requests handled one after the other, a share answered 201 leaves the
\* trip's isShared true, having set it if it was false, and no step of a share
\* request turns a true isShared into false.
C8_Step ==
  /\ (resp' # NoResp /\ resp'.op = "share" /\ resp'.status = 201) =>
       /\ trips'[resp'.req.tripId].live
       /\ trips'[resp'.req.tripId].isShared
  /\ \A req \in Handlers :
       (req.kind = "share" /\ req.pc = "updateTrip" /\ Steps(req)) =>
          /\ ~trips[req.tripId].isShared
          /\ trips'[req.tripId].isShared
  /\ Share =>
       \A t \in DOMAIN trips :
         (trips[t].live /\ trips[t].isShared) => (trips'[t].live /\ trips'[t].isShared)

C8_IsSharedMonotonic == [][C8_Step]_vars

\* C8 happens: a second user's share is answered 201 and the trip is still shared
C8_Witness ==
  /\ resp.op = "share"
  /\ resp.status = 201
  /\ Cardinality(getTripMembers(resp.req.tripId)) = 2
  /\ trips[resp.req.tripId].isShared

\* C9: no membership row of a trip names the trip's owner, and a trip's owner is
\* for ever the user who created it.
C9_OwnerNoMember ==
  /\ \A t \in DOMAIN trips : trips[t].live => trips[t].userId = creator[t]
  /\ \A m \in DOMAIN tripMembers :
       LET t == tripMembers[m].tripId IN
         /\ tripMembers[m].userId # creator[t]
         /\ trips[t].live => tripMembers[m].userId # trips[t].userId

\* C9 happens: the owner's PATCH is answered 200 on a trip that has a member
C9_Witness ==
  /\ resp.op = "patchTrip"
  /\ resp.status = 200
  /\ getTripMembers(resp.req.tripId) # {}

\* C10: a share answered 201 carries the membership row this request inserted:
\* the request's trip, the target user and the requested role.
C10_OwnRecord ==
  (resp # NoResp /\ resp.op = "share" /\ resp.status = 201) =>
    /\ resp.body.live
    /\ resp.body.tripId = resp.req.tripId
    /\ resp.body.userId = resp.req.shareWith
    /\ resp.body.role = IF resp.req.role = "undefined" THEN "viewer" ELSE resp.req.role

\* the handlers that run getWeatherForLocation
WeatherKinds == {"weather", "nextTrip"}

\* the rows of weather_cache of a location
CacheOf(location) ==
  {c \in DOMAIN weatherCache : weatherCache[c].location = location}

\* the latest timestamp among the rows of a location
LatestOf(location) ==
  CHOOSE t \in {weatherCache[c].timestamp : c \in CacheOf(location)} :
    \A c \in CacheOf(location) : weatherCache[c].timestamp <= t

\* C11: when getWeatherForLocation reads the cache (the database answering) and the
\* latest row of the location has timestamp t: before t + 30 minutes it returns the
\* payload of a latest row as it was stored, calls no upstream and writes no row;
\* at t + 30 minutes or later it goes on to call upstream.  A cache row is written
\* only by a handler that has fetched; its timestamp is the time of the write, later
\* than that of every row that is stale by then and not earlier than any row's;
\* its data parses back to the fetched payload, which is the payload returned.
C11_Step ==
  /\ \A req \in Handlers :
       (req.kind \in WeatherKinds /\ req.pc = "getWeatherCache" /\ Steps(req)
          /\ dbUp /\ CacheOf(req.location) # {}) =>
         LET t == LatestOf(req.location) IN
           IF now < t + cacheTime
           THEN /\ resp'.op = req.kind
                /\ resp'.status = 200
                /\ \E c \in CacheOf(req.location) :
                     /\ weatherCache[c].timestamp = t
                     /\ JSONstringify(resp'.body) = weatherCache[c].data
                /\ weatherCache' = weatherCache
                /\ inflight' = inflight (-) SetToBag({req})
           ELSE /\ resp' = NoResp
                /\ weatherCache' = weatherCache
                /\ inflight' = (inflight (-) SetToBag({req}))
                                 (+) SetToBag({[req EXCEPT !.pc = "fetch"]})
  /\ weatherCache' # weatherCache =>
       \E req \in Handlers :
         /\ req.pc = "saveWeatherCache" /\ Steps(req)
         /\ req.weatherData.temperature \in Temperatures
         /\ weatherCache' = Append(weatherCache, weatherCache'[Len(weatherCache')])
         /\ LET row == weatherCache'[Len(weatherCache')] IN
              /\ row.location = req.location
              /\ row.timestamp = now
              /\ JSONparse(row.data) = req.weatherData
              /\ \A c \in CacheOf(req.location) :
                   /\ weatherCache[c].timestamp <= row.timestamp
                   /\ now >= weatherCache[c].timestamp + cacheTime =>
                        weatherCache[c].timestamp < row.timestamp
  /\ \A req \in Handlers :
       (req.kind \in WeatherKinds /\ req.pc = "readback" /\ Steps(req) /\ dbUp) =>
         /\ resp'.status = 200
         /\ resp'.body = req.weatherData
         /\ \E c \in DOMAIN weatherCache :
              /\ weatherCache[c].location = req.location
              /\ JSONparse(weatherCache[c].data) = resp'.body

C11_FreshnessWindow == [][C11_Step]_vars

\* C11 happens: the location has a row that went stale and a row fetched after
\* that, and a request within thirty minutes of the second is answered from it
C11_Witness ==
  /\ resp.op = "weather"
  /\ resp.status = 200
  /\ "weatherData" \notin DOMAIN resp.req
  /\ \E c, d \in CacheOf(resp.req.location) :
       /\ weatherCache[c].timestamp + cacheTime <= weatherCache[d].timestamp
       /\ now = weatherCache[d].timestamp + 1
       /\ JSONparse(weatherCache[d].data) = resp.body
       /\ weatherCache[c].data # weatherCache[d].data

\* C12: when getWeatherForLocation fetches and the provider is unreachable or
\* answers another status than 2xx, nothing is raised: the handler answers 200 with
\* the placeholder (condition "Unknown", temperature 25, location as requested) and
\* writes no cache row; GET /api/weather/:location is never answered 5xx.
C12_Step ==
  /\ \A req \in Handlers :
       (req.kind \in WeatherKinds /\ req.pc = "fetch" /\ Steps(req)
          /\ upstream \in {"non2xx", "unreachable"}) =>
         /\ resp'.op = req.kind
         /\ resp'.status = 200
         /\ resp'.body.condition = "Unknown"
         /\ resp'.body.temperature = 25
         /\ resp'.body.location = req.location
         /\ weatherCache' = weatherCache
         /\ inflight' = inflight (-) SetToBag({req})
  /\ (resp' # NoResp /\ resp'.op = "weather") => resp'.status = 200

C12_UpstreamAbsorbed == [][C12_Step]_vars

\* C12 happens: the row of the location is stale, the provider answers another
\* status than 2xx, and the request is answered 200 with the placeholder
C12_Witness ==
  /\ resp.op = "weather"
  /\ resp.status = 200
  /\ dbUp
  /\ upstream = "non2xx"
  /\ resp.body.condition = "Unknown"
  /\ resp.body.location = resp.req.location
  /\ \E c \in CacheOf(resp.req.location) : now >= weatherCache[c].timestamp + cacheTime

\* the trips of user u that start today or later
Upcoming(u) ==
  {t \in DOMAIN trips :
     /\ trips[t].live
     /\ trips[t].userId = u
     /\ trips[t].startDate \div TicksPerDay >= now \div TicksPerDay}

\* C13: when getNextTripWeather has read the user's trips and one of them starts
\* today or later (by the day), it goes on to getWeatherForLocation with the
\* destination of such a trip of the earliest start date, never a trip that
\* started before today; the location stays the same up to the answer, which is
\* what getWeatherForLocation returns for it.
C13_Step ==
  /\ \A req \in Handlers :
       (req.kind = "nextTrip" /\ req.pc = "getTripsByUser" /\ Steps(req) /\ dbUp
          /\ Upcoming(req.user) # {}) =>
         /\ resp' = NoResp
         /\ \E t \in Upcoming(req.user) :
              /\ \A o \in Upcoming(req.user) : trips[t].startDate <= trips[o].startDate
              /\ inflight' = SetToBag({[req EXCEPT !.location = trips[t].destination,
                                                   !.pc = "getWeatherCache"]})
  /\ \A req \in Handlers :
       (req.kind = "nextTrip" /\ req.pc # "getTripsByUser" /\ Steps(req)) =>
         IF resp' = NoResp
         THEN \A next \in BagToSet(inflight') : next.location = req.location
         ELSE /\ resp'.op = "nextTrip"
              /\ resp'.status = 200
              /\ resp'.req.location = req.location
              /\ resp'.body.location = req.location

C14_NullOnlyWithoutTrip ==
  (resp # NoResp /\ resp.op = "nextTrip" /\ resp.status = 404) =>
    Upcoming(resp.req.user) = {}

\* C15: a request for /api/weather/next-trip is answered by the next-trip handler,
\* never by the handler of /api/weather/:location with "next-trip" as the location.
C15_NextTripRouted ==
  (resp # NoResp /\ "path" \in DOMAIN resp.req
     /\ resp.req.path = <<"api", "weather", "next-trip">>) =>
    /\ resp.op = "nextTrip"
    /\ resp.req.location # "next-trip"

\* C16: once the owner's DELETE /api/trips/:id is answered 204, no row of
\* trip_members, schedules, packing_items or trip_tags carries the trip's id.
C16_CascadeDelete ==
  (resp # NoResp /\ resp.op = "deleteTrip" /\ resp.status = 204) =>
    LET t == resp.req.tripId IN
      /\ getTripMembers(t) = {}
      /\ getSchedulesByTrip(t) = {}
      /\ getPackingItemsByTrip(t) = {}
      /\ getTripTags(t) = {}

\* C17: every row of schedules and of packing_items (and of trip_tags, which no
\* route fills) references a trip that exists.
C17_ReferentialIntegrity ==
  /\ \A i \in DOMAIN schedules :
       schedules[i].live => getTrip(schedules[i].tripId).live
  /\ \A i \in DOMAIN packingItems :
       packingItems[i].live => getTrip(packingItems[i].tripId).live

\* the trips user u owns or is a member of
TripsOf(u) ==
  {t \in DOMAIN trips : trips[t].live /\ (trips[t].userId = u \/ RowsOf(u, t) # {})}

\* C18: GET /api/trips, /api/schedules and /api/packing-items return the entities
\* of every trip the user owns together with those of every trip the user is a
\* member of.
C18_MultiEntityReads ==
  (resp # NoResp /\ resp.op \in ListKinds /\ resp.status = 200) =>
    LET u == resp.req.user IN
      resp.body.rows =
        CASE resp.op = "listTrips" -> TripsOf(u)
          [] resp.op = "listSchedules" ->
               {i \in DOMAIN schedules :
                  schedules[i].live /\ schedules[i].tripId \in TripsOf(u)}
          [] resp.op = "listPackingItems" ->
               {i \in DOMAIN packingItems :
                  packingItems[i].live /\ packingItems[i].tripId \in TripsOf(u)}

\* C20: a request without a session is answered 401, whatever the endpoint.
C20_AuthRequired ==
  (resp # NoResp /\ "session" \in DOMAIN resp.req /\ ~resp.req.session) =>
    resp.status = 401

\* C19: no stored trip has its endDate before its startDate.
C19_DateOrder ==
  \A t \in DOMAIN trips : trips[t].live => trips[t].startDate <= trips[t].endDate

\* the trip-scoped requests: those whose path names a trip, a schedule or a
\* packing item
ScopedKinds == OwnerOps \cup ReadKinds \cup WriteKinds

\* the tables requests write
tables == <<trips, tripMembers, schedules, packingItems>>

\* the id of the request resolves: the trip of the path exists or, for a path that
\* names a schedule or a packing item, the row exists and so does its trip
Resolves(req) ==
  IF req.kind \in PatchKinds \cup DeleteKinds
  THEN /\ getChild(req.kind, req.id).live
       /\ getTrip(getChild(req.kind, req.id).tripId).live
  ELSE getTrip(req.tripId).live

\* C21: with one request handled at a time, a trip-scoped request whose trip id, or
\* whose schedule or packing item id, does not resolve is answered 404 whoever the
\* requester is; 403 is answered only for a trip that exists; and the step that
\* answers 404 or 403 writes no table.
C21_Step ==
  (resp' # NoResp /\ resp'.op \in ScopedKinds) =>
    /\ ~Resolves(resp'.req) => resp'.status = 404
    /\ resp'.status = 403 => getTrip(resp'.req.tripId).live
    /\ resp'.status \in {403, 404} => UNCHANGED tables

C21_NotFoundFirst == [][C21_Step]_vars

\* C21 happens: a user who is neither owner nor member asks to change a schedule
\* whose trip has been deleted, and is answered 404, not 403
C21_Witness ==
  /\ resp.op = "patchSchedule"
  /\ resp.status = 404
  /\ resp.msg = "Trip not found"
  /\ getSchedule(resp.req.id).live
  /\ resp.req.user = 3

\* the location has no row, or its latest row is thirty minutes old or older
MissingOrStale(location) ==
  CacheOf(location) = {} \/ now >= LatestOf(location) + cacheTime

\* C22: nothing keeps two requests for one location apart.  A handler that reads
\* the cache (the database answering) and finds no row or a stale one goes on to
\* fetch, whatever the other handlers in flight are doing; a handler that has
\* fetched inserts a row of its own, with its own payload, also when the location
\* has got a fresh row in the meantime; and an answer served from the cache is the
\* payload of a row of the greatest timestamp of the location.
C22_Step ==
  /\ \A req \in Handlers :
       (req.kind \in WeatherKinds /\ req.pc = "getWeatherCache" /\ Steps(req)
          /\ dbUp /\ MissingOrStale(req.location)) =>
         /\ resp' = NoResp
         /\ weatherCache' = weatherCache
         /\ inflight' = (inflight (-) SetToBag({req}))
                          (+) SetToBag({[req EXCEPT !.pc = "fetch"]})
  /\ \A req \in Handlers :
       (req.kind \in WeatherKinds /\ req.pc = "saveWeatherCache" /\ Steps(req) /\ dbUp) =>
         weatherCache' = Append(weatherCache,
                                [location |-> req.location,
                                 data |-> JSONstringify(req.weatherData),
                                 timestamp |-> now])
  /\ (resp' # NoResp /\ resp'.op \in WeatherKinds /\ resp'.status = 200
        /\ "weatherData" \notin DOMAIN resp'.req /\ resp'.body.condition # "Unknown") =>
       \E c \in CacheOf(resp'.req.location) :
         /\ weatherCache[c].timestamp = LatestOf(resp'.req.location)
         /\ JSONparse(weatherCache[c].data) = resp'.body

C22_CacheRace == [][C22_Step]_vars

\* C22 happens: two requests for one location have each fetched and each inserted
\* a row, the second row within thirty minutes of the first and with another
\* payload, and a later request is served the second row
C22_Witness ==
  /\ resp.op = "weather"
  /\ resp.status = 200
  /\ "weatherData" \notin DOMAIN resp.req
  /\ Len(weatherCache) = 2
  /\ weatherCache[1].location = weatherCache[2].location
  /\ weatherCache[1].timestamp < weatherCache[2].timestamp
  /\ weatherCache[2].timestamp < weatherCache[1].timestamp + cacheTime
  /\ weatherCache[1].data # weatherCache[2].data
  /\ resp.req.location = weatherCache[2].location
  /\ resp.body = JSONparse(weatherCache[2].data)

\* C23: the share workflow writes in two statements, each a step of its own: first
\* is_shared = true on the trip, with trip_members untouched, then the membership
\* row, with trips untouched; a handler is about to insert only when the trip is
\* marked; and when the insert fails, or the handler gets no further, nothing is
\* taken back: the trip stays is_shared = true with no membership row of the target.
C23_Step ==
  /\ \A req \in Handlers :
       (req.kind = "share" /\ req.pc = "updateTrip" /\ Steps(req) /\ dbUp) =>
         /\ trips'[req.tripId].isShared
         /\ tripMembers' = tripMembers
         /\ resp' = NoResp
  /\ \A req \in Handlers :
       (req.kind = "share" /\ req.pc = "addTripMember") =>
         /\ trips[req.tripId].isShared
         /\ ~isMember(getTripMembers(req.tripId), req.shareWith)
         /\ Steps(req) => trips' = trips
         /\ (Steps(req) /\ ~dbUp) =>
              /\ resp'.op = "share" /\ resp'.status = 500
              /\ tripMembers' = tripMembers
              /\ trips'[req.tripId].isShared
  /\ tripMembers' # tripMembers =>
       \E req \in Handlers : req.kind = "share" /\ req.pc = "addTripMember"

C23_NonAtomicShare == [][C23_Step]_vars

\* C23 happens: the insert of the first share of a trip has failed; the request is
\* answered 500 and the trip is marked shared though it has no member
C23_Witness ==
  /\ resp.op = "share"
  /\ resp.status = 500
  /\ "shareWith" \in DOMAIN resp.req
  /\ getTrip(resp.req.tripId).live
  /\ trips[resp.req.tripId].isShared
  /\ getTripMembers(resp.req.tripId) = {}

\* C24: the weather_cache table only grows: a step that changes it appends one row
\* and leaves every other row as it was; a handler that has fetched and saves (the
\* database answering) appends exactly one row, under the location string of the
\* request as it was given; and what is read from the cache for a location is a row
\* of the greatest timestamp among the rows whose location is that very string: a
\* row under another spelling is neither served nor keeps the handler from fetching.
C24_Step ==
  /\ weatherCache' # weatherCache =>
       /\ Len(weatherCache') = Len(weatherCache) + 1
       /\ \A c \in DOMAIN weatherCache : weatherCache'[c] = weatherCache[c]
  /\ \A req \in Handlers :
       (req.kind \in WeatherKinds /\ req.pc = "saveWeatherCache" /\ Steps(req) /\ dbUp) =>
         /\ Len(weatherCache') = Len(weatherCache) + 1
         /\ weatherCache'[Len(weatherCache')].location = req.path[3]
  /\ \A req \in Handlers :
       (req.kind \in WeatherKinds /\ req.pc = "getWeatherCache" /\ Steps(req) /\ dbUp) =>
         IF CacheOf(req.path[3]) = {}
         THEN /\ resp' = NoResp
              /\ \E next \in BagToSet(inflight') : next.pc = "fetch"
         ELSE resp' # NoResp =>
                \E c \in CacheOf(req.path[3]) :
                  /\ weatherCache[c].timestamp = LatestOf(req.path[3])
                  /\ resp'.body = JSONparse(weatherCache[c].data)

C24_CacheAppendOnly == [][C24_Step]_vars

\* C24 happens: "Paris" has a fresh row, a request for "paris" has fetched all the
\* same and stored a second row under its own spelling, and is answered
C24_Witness ==
  /\ resp.op = "weather"
  /\ resp.status = 200
  /\ "weatherData" \in DOMAIN resp.req
  /\ resp.req.location = "paris"
  /\ Len(weatherCache) = 2
  /\ weatherCache[1].location = "Paris"
  /\ weatherCache[2].location = "paris"
  /\ now < weatherCache[1].timestamp + cacheTime

\* the places in list of the items of day d
PlacesOf(list, d) == {i \in DOMAIN list : dateOf(list[i]) = d}

\* the first place in list of an item of day d
FirstOf(list, d) ==
  CHOOSE i \in PlacesOf(list, d) : \A j \in PlacesOf(list, d) : i <= j

\* the places in list of the 12:00:00 items of day d
NoonsOf(list, d) == {i \in PlacesOf(list, d) : timeOf(list[i]) = "12:00:00"}

\* C25: what getForecast returns when the provider has answered holds exactly one
\* entry for each day that occurs in the provider's list, the days in the order in
\* which they first occur; the entry of a day is made of a 12:00:00 item of that
\* day when the day has one (the last, should the provider send several) and
\* otherwise of the first item of that day.  When the provider has not answered
\* 2xx it returns the empty sequence.
C25_ForecastPerDay ==
  forecast.called =>
    LET list == forecast.list
        out == forecast.out IN
      IF ~forecast.ok THEN out = <<>>
      ELSE /\ {out[k].date : k \in DOMAIN out} = {dateOf(list[i]) : i \in DOMAIN list}
           /\ \A j, k \in DOMAIN out :
                j < k => FirstOf(list, out[j].date) < FirstOf(list, out[k].date)
           /\ \A k \in DOMAIN out :
                LET d == out[k].date IN
                  IF NoonsOf(list, d) # {}
                  THEN /\ \E i \in NoonsOf(list, d) : out[k].temperature = list[i].temp
                       /\ \A i \in NoonsOf(list, d) :
                            (\A j \in NoonsOf(list, d) : j <= i) =>
                              out[k].temperature = list[i].temp
                  ELSE out[k].temperature = list[FirstOf(list, d)].temp

\* C25 happens: the provider has sent a morning item and a 12:00:00 item of another
\* temperature for the first day and an afternoon item for the second, and the
\* forecast has the noon entry for the first day and the afternoon one for the second
C25_Witness ==
  /\ forecast.called
  /\ forecast.ok
  /\ Len(forecast.list) = 3
  /\ forecast.list[1].dt_txt = <<"2026-11-05", "09:00:00">>
  /\ forecast.list[2].dt_txt = <<"2026-11-05", "12:00:00">>
  /\ forecast.list[3].dt_txt = <<"2026-11-06", "15:00:00">>
  /\ forecast.list[1].temp # forecast.list[2].temp
  /\ Len(forecast.out) = 2
  /\ forecast.out[1].temperature = forecast.list[2].temp
  /\ forecast.out[2].date = "2026-11-06"

\* C26: a PATCH of a schedule or of a packing item that is answered 200 leaves the
\* row in the trip it was in when the handler read it: the tripId of the row sent
\* back is the tripId the authorization was decided for.
C26_TripIdFixed ==
  (resp # NoResp /\ resp.op \in PatchKinds /\ resp.status = 200) =>
    resp.body.tripId = resp.req.tripId

\* C27: a trip that has a membership row is marked shared.
C27_MembersImplyShared ==
  \A t \in DOMAIN trips :
    (trips[t].live /\ getTripMembers(t) # {}) => trips[t].isShared

\* C28: with requests handled one after the other, the row POST /api/trips inserts
\* has the session user as its userId, whatever the body carries, and that is the
\* row sent back with the 201; no step changes the userId of a row of trips, so a
\* trip's owner is at all times the user who created it.
C28_Step ==
  /\ Len(trips') > Len(trips) =>
       \E req \in BagToSet(inflight') :
         /\ req.kind = "createTrip" /\ req.pc = "readback"
         /\ trips' = Append(trips, trips'[Len(trips')])
         /\ trips'[Len(trips')].userId = req.user
  /\ (resp' # NoResp /\ resp'.op = "createTrip" /\ resp'.status = 201) =>
       resp'.body.userId = resp'.req.user
  /\ \A t \in DOMAIN trips :
       (trips[t].live /\ trips'[t].live) => trips'[t].userId = trips[t].userId
  /\ \A t \in DOMAIN trips' : trips'[t].live => trips'[t].userId = creator'[t]

C28_OwnerFixed == [][C28_Step]_vars

\* C28 happens: the owner's PATCH has written the trip (it is now marked shared,
\* with no member) and is answered 200, and the trip's owner is still its creator
C28_Witness ==
  /\ resp.op = "patchTrip"
  /\ resp.status = 200
  /\ resp.req.tripData.isShared = "true"
  /\ trips[resp.req.tripId].isShared
  /\ getTripMembers(resp.req.tripId) = {}
  /\ trips[resp.req.tripId].userId = resp.req.user
  /\ creator[resp.req.tripId] = resp.req.user

\* the code's read check on the tables tr and tm: owner, or a membership row
MayRead(tr, tm, u, t) ==
  \/ tr[t].userId = u
  \/ \E m \in DOMAIN tm : tm[m].tripId = t /\ tm[m].userId = u

\* the code's write check on the tables tr and tm: owner, or a membership row of
\* role editor or owner
MayWrite(tr, tm, u, t) ==
  \/ tr[t].userId = u
  \/ \E m \in DOMAIN tm :
       /\ tm[m].tripId = t /\ tm[m].userId = u /\ tm[m].role \in {"editor", "owner"}

\* C29: no step removes a row of trip_members or changes one, and no step changes
\* who owns a trip; so a user who may read a trip, or write its children, before a
\* step may do so after it, as long as the trip is there.
C29_Step ==
  /\ Len(tripMembers') >= Len(tripMembers)
  /\ \A m \in DOMAIN tripMembers : tripMembers'[m] = tripMembers[m]
  /\ \A t \in DOMAIN trips : \A u \in UserIds :
       (trips[t].live /\ trips'[t].live) =>
         /\ MayRead(trips, tripMembers, u, t) => MayRead(trips', tripMembers', u, t)
         /\ MayWrite(trips, tripMembers, u, t) => MayWrite(trips', tripMembers', u, t)

C29_NoRevocation == [][C29_Step]_vars

\* C29 happens: the owner has set isShared to false with a PATCH, which is
\* answered 200, and the member the trip was shared with as an editor still holds
\* the row and may write
C29_Witness ==
  /\ resp.op = "patchTrip"
  /\ resp.status = 200
  /\ resp.req.tripData.isShared = "false"
  /\ getTrip(resp.req.tripId).live
  /\ ~trips[resp.req.tripId].isShared
  /\ \E u \in UserIds :
       /\ u # trips[resp.req.tripId].userId
       /\ MayWrite(trips, tripMembers, u, resp.req.tripId)

\* the row holds what a fetch the provider answered has produced, not later than
\* the row was written
Fetched(row) ==
  \E temperature \in Temperatures, date \in 0..dayOf(row.timestamp) :
    row.data = JSONstringify([temperature |-> temperature, condition |-> "Clear",
                              location |-> safeLocation(row.location),
                              date |-> date, icon |-> "10d"])

\* C30: every row of weather_cache holds the payload of a fetch the provider
\* answered, never the placeholder; a step that answers with the placeholder, and
\* the step of a fetch the provider does not answer 2xx, write no row; and what a
\* handler serves from the cache (the database answering) is never the placeholder.
C30_Step ==
  /\ \A c \in DOMAIN weatherCache' : Fetched(weatherCache'[c])
  /\ (resp' # NoResp /\ resp'.op \in WeatherKinds /\ resp'.status = 200
        /\ resp'.body.condition = "Unknown") => weatherCache' = weatherCache
  /\ \A req \in Handlers :
       (req.kind \in WeatherKinds /\ req.pc = "fetch" /\ Steps(req) /\ upstream # "ok") =>
         weatherCache' = weatherCache
  /\ \A req \in Handlers :
       (req.kind \in WeatherKinds /\ req.pc = "getWeatherCache" /\ Steps(req) /\ dbUp
          /\ resp' # NoResp) => resp'.body.condition # "Unknown"

C30_PlaceholderNotCached == [][C30_Step]_vars

\* C30 happens: the provider is unreachable and a request is answered with the
\* placeholder; the cache has the row fetched earlier for the other location and
\* still none for this one, for which another request stands at its fetch
C30_Witness ==
  /\ resp.op = "weather"
  /\ resp.status = 200
  /\ resp.body.condition = "Unknown"
  /\ dbUp
  /\ upstream = "unreachable"
  /\ Len(weatherCache) = 1
  /\ CacheOf(resp.req.location) = {}
  /\ \E req \in Handlers : req.pc = "fetch" /\ req.location = resp.req.location

====
